---- MODULE Spec2Model ----
(***************************************************************************)
(* A model of the REST API of NotBad2/Rest-API: the users, movies and      *)
(* cinemas routers (Express handlers over a MongoDB store).                *)
(*                                                                         *)
(* The store is three collections (sets of documents with unique _id).     *)
(* Every handler is one action: it reads the request, runs the handler's   *)
(* code on the collections and records the response.  A request is served  *)
(* to completion before the next one is taken (Await).  The handlers whose  *)
(* database calls interleave with those of other requests are modelled     *)
(* apart, as flights: one action for every stretch of code between two     *)
(* awaited database calls.                                                 *)
(***************************************************************************)
EXTENDS Integers, Sequences, FiniteSets, TLC

VARIABLES
    users,      \* the users collection: a set of user documents
    movies,     \* the movies collection: a set of movie documents
    cinemas,    \* the cinemas collection: a set of cinema documents
    nextOid,    \* the next ObjectId the store hands out on insert
    req,        \* the request being answered (NoReq when the server is idle)
    resp,       \* the response sent for req
    flights     \* the handlers that run concurrently, one for every client

vars == <<users, movies, cinemas, nextOid, req, resp, flights>>

(***************************************************************************)
(* Bounds of the model.                                                    *)
(***************************************************************************)
MaxBatch == 2       \* longest array body of a POST
MaxRatings == 2     \* longest movies array in a request body of Spec
MaxOid == 1         \* the store hands out ObjectIds 1..MaxOid, then no insert
MaxTime == 1        \* clock readings 1..MaxTime

(***************************************************************************)
(* JSON values.  A scalar is a record [t, s, n]: its JavaScript type tag,  *)
(* its string value and its numeric value.                                 *)
(***************************************************************************)
Absent == [t |-> "absent", s |-> "", n |-> 0]      \* key not in the object
Null == [t |-> "null", s |-> "", n |-> 0]
JStr(x) == [t |-> "str", s |-> x, n |-> 0]
JNum(x) == [t |-> "num", s |-> "", n |-> x]

\* JavaScript truthiness (the test `if (x)` / `!x`)
Truthy(j) ==
    CASE j.t = "str" -> j.s # ""
      [] j.t = "num" -> j.n # 0
      [] j.t = "arr" -> TRUE
      [] OTHER -> FALSE

\* String.prototype.trim on the strings of the model: " " is the one
\* whitespace-only string
Trim(s) == IF s = " " THEN "" ELSE s

(***************************************************************************)
(* The movies field of a user: absent, null, a (non-empty) string or an    *)
(* array of entries.  An entry of a request is [obj, movieid, rating,      *)
(* extra]: obj is FALSE for an entry that is no object (a number), extra   *)
(* says the entry has a key other than movieid and rating.                 *)
(***************************************************************************)
MAbsent == [t |-> "absent", items |-> <<>>]
MNull == [t |-> "null", items |-> <<>>]
MStr == [t |-> "str", items |-> <<>>]              \* the string "abc"
MArr(items) == [t |-> "arr", items |-> items]

MTruthy(m) == m.t \in {"str", "arr"}

Entry(movieid, rating) ==
    [obj |-> TRUE, movieid |-> movieid, rating |-> rating, extra |-> FALSE]
NonObjectEntry ==
    [obj |-> FALSE, movieid |-> Absent, rating |-> Absent, extra |-> FALSE]

(***************************************************************************)
(* Identifiers: a number, or an ObjectId given by its 24 hexadecimal       *)
(* characters.  A path segment is a sequence of characters.                *)
(***************************************************************************)
DigitChars == <<"0", "1", "2", "3", "4", "5", "6", "7", "8", "9">>
HexChars == DigitChars \o <<"a", "b", "c", "d", "e", "f">>
OidHexLen == 24

NumId(n) == [t |-> "num", n |-> n, hex |-> <<>>]
ObjectId(hex) == [t |-> "oid", n |-> 0, hex |-> hex]
NullId == [t |-> "null", n |-> 0, hex |-> <<>>]

CharVal(c) == (CHOOSE i \in 1..Len(HexChars) : HexChars[i] = c) - 1
IsDigit(c) == \E i \in 1..Len(DigitChars) : DigitChars[i] = c
IsHex(c) == \E i \in 1..Len(HexChars) : HexChars[i] = c

\* /^\d+$/.test(seg)
IsDigits(seg) == Len(seg) > 0 /\ \A i \in 1..Len(seg) : IsDigit(seg[i])

\* parseInt of a digit-only string
RECURSIVE parseInt(_)
parseInt(seg) ==
    IF seg = <<>> THEN 0
    ELSE parseInt(SubSeq(seg, 1, Len(seg) - 1)) * 10 + CharVal(seg[Len(seg)])

\* ObjectId.isValid of a string: 24 hexadecimal characters
ObjectIdIsValid(seg) ==
    Len(seg) = OidHexLen /\ \A i \in 1..Len(seg) : IsHex(seg[i])

\* the n-th ObjectId the store generates: a fixed prefix (time, machine and
\* process) and a counter in the last characters
OidHex(n) ==
    [i \in 1..OidHexLen |->
        IF i = OidHexLen THEN HexChars[(n % 16) + 1]
        ELSE IF i = OidHexLen - 1 THEN HexChars[((n \div 16) % 16) + 1]
        ELSE "a"]

Oid(n) == ObjectId(OidHex(n))

checkId(seg) ==
    IF IsDigits(seg) THEN NumId(parseInt(seg))
    ELSE IF ObjectIdIsValid(seg) THEN ObjectId(seg)
    ELSE NullId

\* the order of two hexadecimal strings of equal length
RECURSIVE HexLess(_, _)
HexLess(a, b) ==
    /\ a # <<>>
    /\ \/ CharVal(Head(a)) < CharVal(Head(b))
       \/ Head(a) = Head(b) /\ HexLess(Tail(a), Tail(b))

\* BSON order of _id values: numbers before ObjectIds
IdLess(a, b) ==
    \/ a.t = "num" /\ b.t = "oid"
    \/ a.t = "num" /\ b.t = "num" /\ a.n < b.n
    \/ a.t = "oid" /\ b.t = "oid" /\ HexLess(a.hex, b.hex)

\* collection.findOne({_id: id}): the set of matching documents (0 or 1)
findById(coll, id) == {d \in coll : d._id = id}

\* movies.findOne({_id: movieId}) for a JSON value: a number matches the
\* movie of that numeric id; a string matches no number and no ObjectId
findMovie(mv, movieId) ==
    {d \in mv : movieId.t = "num" /\ d._id = NumId(movieId.n)}

(***************************************************************************)
(* The store's initial content: the imported movies.                       *)
(***************************************************************************)
Movie(id, title, year, genres) ==
    [_id |-> id, title |-> title, year |-> year, genres |-> genres]

SeedMovies ==
    { Movie(NumId(1), JStr("Heat"), JNum(1995), <<JStr("Drama")>>),
      Movie(NumId(2), JStr("Big"), JNum(1988), <<JStr("Comedy")>>) }

(***************************************************************************)
(* Requests and responses.                                                 *)
(***************************************************************************)
NoBody == [isArray |-> FALSE, items |-> <<>>]
ArrayBody(items) == [isArray |-> TRUE, items |-> items]
ObjectBody(obj) == [isArray |-> FALSE, items |-> <<obj>>]

NoReq ==
    [op |-> "none", seg |-> <<>>, body |-> NoBody, page |-> <<>>,
     limit |-> <<>>, now |-> 0, genre |-> "", year |-> <<>>, order |-> "",
     coords |-> <<>>]

Request(op) == [NoReq EXCEPT !.op = op]

\* a number of the response: an integer, Infinity or NaN
Finite(n) == [k |-> "int", n |-> n]
Infinity == [k |-> "inf", n |-> 0]
NaN == [k |-> "nan", n |-> 0]

NoEnvelope ==
    [items |-> <<>>, totalDocs |-> 0, currentPageDocs |-> 0,
     totalPages |-> Finite(0), currentPage |-> 0,
     hasPrev |-> FALSE, prevPage |-> Finite(0),
     hasNext |-> FALSE, nextPage |-> Finite(0)]

\* results: the documents or rows of the body of an answer that is a list;
\* queried: the handler ran its aggregation or geospatial query
NoResp ==
    [status |-> 0, error |-> "", details |-> <<>>,
     topKind |-> "none", topMovies |-> <<>>, envelope |-> NoEnvelope,
     results |-> <<>>, queried |-> FALSE]

Response(status, error) == [NoResp EXCEPT !.status = status, !.error = error]

(***************************************************************************)
(* Flights: the state of a handler between its awaited database calls.     *)
(* pc is where the handler stands ("idle": the client has no request in    *)
(* flight, "done": the response is sent); lookups are the answers of the   *)
(* findOne calls on movies made so far, list and missing the local         *)
(* variables movies and filmesNaoAdicionados of PUT /cinemas/id/:id;       *)
(* overtaken says that a movie was deleted while the handler ran.          *)
(***************************************************************************)
Clients == {"a", "b"}

NoFlight ==
    [pc |-> "idle", op |-> "none", seg |-> <<>>, body |-> NoBody, now |-> 0,
     lookups |-> <<>>, before |-> <<>>, list |-> <<>>, missing |-> <<>>,
     overtaken |-> FALSE,
     status |-> 0]

NoFlights == [c \in Clients |-> NoFlight]

\* the handler sends its response
Answer(flight, status) == [flight EXCEPT !.pc = "done", !.status = status]

(***************************************************************************)
(* users router                                                            *)
(***************************************************************************)
\* filterValidFields: keeps name, gender, age, occupation, movies and drops
\* every other key (num_ratings stands for the keys that are dropped)
filterValidFields(user) == [user EXCEPT !.num_ratings = Absent]

Err(e, i) == [e |-> e, i |-> i]

\* the checks of one entry of movies, in the order of the code
\* (i is the JavaScript index of the entry)
validateUserEntry(movie, i, mv) ==
    IF ~movie.obj THEN <<Err("item not an object", i)>>
    ELSE
        LET id == movie.movieid
            r == movie.rating
            idOk == Truthy(id) /\ id.t = "num" /\ id.n > 0
        IN  (IF ~idOk THEN <<Err("movieid invalid", i)>> ELSE <<>>)
            \o (IF idOk /\ findById(mv, NumId(id.n)) = {}
                THEN <<Err("movie does not exist", id.n)>> ELSE <<>>)
            \o (IF ~Truthy(r) \/ r.t # "num" \/ r.n < 1 \/ r.n > 5
                THEN <<Err("rating invalid", i)>> ELSE <<>>)
            \o (IF movie.extra THEN <<Err("fields not allowed", i)>> ELSE <<>>)

RECURSIVE validateUserEntries(_, _, _)
validateUserEntries(items, from, mv) ==
    IF from > Len(items) THEN <<>>
    ELSE validateUserEntry(items[from], from - 1, mv)
         \o validateUserEntries(items, from + 1, mv)

validateUser(user, mv) ==
    (IF ~Truthy(user.name) \/ user.name.t # "str" \/ Trim(user.name.s) = ""
     THEN <<Err("name invalid", -1)>> ELSE <<>>)
    \o (IF ~Truthy(user.gender) \/ user.gender.t # "str"
           \/ (user.gender.s # "F" /\ user.gender.s # "M")
        THEN <<Err("gender invalid", -1)>> ELSE <<>>)
    \o (IF ~Truthy(user.age) \/ user.age.t # "num" \/ user.age.n <= 0
        THEN <<Err("age invalid", -1)>> ELSE <<>>)
    \o (IF ~Truthy(user.occupation) \/ user.occupation.t # "str"
           \/ Trim(user.occupation.s) = ""
        THEN <<Err("occupation invalid", -1)>> ELSE <<>>)
    \o (IF MTruthy(user.movies)
        THEN IF user.movies.t # "arr"
             THEN <<Err("movies must be an array", -1)>>
             ELSE validateUserEntries(user.movies.items, 1, mv)
        ELSE <<>>)

\* {...movie, timestamp, date}: spreading a value that is no object gives {}
stampEntry(movie, now) ==
    IF movie.obj
    THEN [obj |-> TRUE, movieid |-> movie.movieid, rating |-> movie.rating,
          extra |-> movie.extra, timestamp |-> now, date |-> now]
    ELSE [obj |-> TRUE, movieid |-> Absent, rating |-> Absent,
          extra |-> FALSE, timestamp |-> now, date |-> now]

addTimestampAndDate(items, now) ==
    [i \in 1..Len(items) |-> stampEntry(items[i], now)]

\* the documents POST /users builds from the filtered bodies (lines 158-167)
newUser(user, now) ==
    IF MTruthy(user.movies)
    THEN [user EXCEPT !.movies = MArr(addTimestampAndDate(user.movies.items, now)),
                      !.num_ratings = JNum(Len(user.movies.items))]
    ELSE [user EXCEPT !.movies = MArr(<<>>), !.num_ratings = JNum(0)]

\* the store's insertMany: document i gets the ObjectId oid + i - 1
WithId(doc, id) ==
    [f \in (DOMAIN doc) \cup {"_id"} |-> IF f = "_id" THEN id ELSE doc[f]]

insertMany(coll, docs, oid) ==
    coll \cup {WithId(docs[i], Oid(oid + i - 1)) : i \in 1..Len(docs)}

\* errorsArray: one {index, errors} pair for every index that has errors
RECURSIVE errorsArrayFrom(_, _)
errorsArrayFrom(errors, from) ==
    IF from > Len(errors) THEN <<>>
    ELSE (IF errors[from] # <<>>
          THEN <<[index |-> from - 1, errors |-> errors[from]]>> ELSE <<>>)
         \o errorsArrayFrom(errors, from + 1)

\* router.post("/") of users: the response and the new store
postUsers(body, now, us, mv, oid) ==
    IF ~body.isArray
    THEN [resp |-> Response(400, "body must be an array"), users |-> us, nextOid |-> oid]
    ELSE
        LET n == Len(body.items)
            filtered == [i \in 1..n |-> filterValidFields(body.items[i])]
            errors == [i \in 1..n |-> validateUser(filtered[i], mv)]
            errorsArray == errorsArrayFrom(errors, 1)
            \* addTimestampAndDate calls .map on a value that has none
            throws == \E i \in 1..n :
                          MTruthy(filtered[i].movies) /\ filtered[i].movies.t # "arr"
            docs == [i \in 1..n |-> newUser(filtered[i], now)]
        IN  IF throws
            THEN [resp |-> Response(500, "TypeError"), users |-> us, nextOid |-> oid]
            ELSE IF errorsArray # <<>>
            THEN [resp |-> [Response(400, "invalid user data")
                              EXCEPT !.details = errorsArray],
                  users |-> us, nextOid |-> oid]
            ELSE IF n = 0   \* insertMany([]) throws: the batch cannot be empty
            THEN [resp |-> Response(500, "empty batch"), users |-> us, nextOid |-> oid]
            ELSE [resp |-> Response(201, ""),
                  users |-> insertMany(us, docs, oid), nextOid |-> oid + n]

PostUsers(body, now) ==
    /\ req = NoReq
    /\ LET out == postUsers(body, now, users, movies, nextOid)
       IN  /\ out.nextOid - 1 <= MaxOid
           /\ users' = out.users
           /\ nextOid' = out.nextOid
           /\ resp' = out.resp
    /\ req' = [Request("POST /users") EXCEPT !.body = body, !.now = now]
    /\ UNCHANGED <<movies, cinemas, flights>>

\* the checks of one entry of movies of an update, in the order of the code
validateUserToUpdateEntry(movie, i, mv) ==
    IF ~movie.obj THEN <<Err("item not an object", i)>>
    ELSE
        LET id == movie.movieid
            r == movie.rating
        IN  (IF id.t # "num" \/ id.n <= 0
             THEN <<Err("movieid invalid", i)>> ELSE <<>>)
            \o (IF Truthy(id)
                   /\ (id.t # "num" \/ findById(mv, NumId(id.n)) = {})
                THEN <<Err("movie does not exist", id.n)>> ELSE <<>>)
            \o (IF r.t # "num" \/ r.n < 1 \/ r.n > 5
                THEN <<Err("rating invalid", i)>> ELSE <<>>)
            \o (IF movie.extra THEN <<Err("fields not allowed", i)>> ELSE <<>>)

RECURSIVE validateUserToUpdateEntries(_, _, _)
validateUserToUpdateEntries(items, from, mv) ==
    IF from > Len(items) THEN <<>>
    ELSE validateUserToUpdateEntry(items[from], from - 1, mv)
         \o validateUserToUpdateEntries(items, from + 1, mv)

validateUserToUpdate(user, mv) ==
    (IF Truthy(user.name) /\ user.name.t # "str"
     THEN <<Err("name must be a string", -1)>> ELSE <<>>)
    \o (IF Truthy(user.gender)
           /\ ~(user.gender.t = "str" /\ user.gender.s \in {"M", "F"})
        THEN <<Err("gender must be M or F", -1)>> ELSE <<>>)
    \o (IF Truthy(user.age) /\ (user.age.t # "num" \/ user.age.n < 0)
        THEN <<Err("age must be a positive number", -1)>> ELSE <<>>)
    \o (IF Truthy(user.occupation) /\ user.occupation.t # "str"
        THEN <<Err("occupation must be a string", -1)>> ELSE <<>>)
    \o (IF MTruthy(user.movies)
        THEN IF user.movies.t # "arr"
             THEN <<Err("movies must be an array", -1)>>
             ELSE validateUserToUpdateEntries(user.movies.items, 1, mv)
        ELSE <<>>)

UserFields == {"name", "gender", "age", "occupation", "movies", "num_ratings"}

\* Object.keys(body): the keys that are present
bodyKeys(body) == {f \in UserFields : body[f].t # "absent"}

\* an update that replaces the document by the body and keeps the _id
applySetReplacing(doc, body) ==
    [f \in DOMAIN doc |-> IF f = "_id" THEN doc[f] ELSE body[f]]

\* updateOne({_id}, {$set: body}): the present keys replace the document's
applySet(doc, body) ==
    [f \in DOMAIN doc |->
        IF f \in bodyKeys(body) THEN body[f] ELSE doc[f]]

\* updateBody with num_ratings recomputed from (body.movies || []) on every
\* update, also when the body has no movies
updateBodyCountsAlways(body, now) ==
    IF MTruthy(body.movies)
    THEN [body EXCEPT !.num_ratings = JNum(Len(body.movies.items)),
                      !.movies = MArr(addTimestampAndDate(body.movies.items, now))]
    ELSE [body EXCEPT !.num_ratings = JNum(0)]

\* the body PUT /users/id/:id writes (lines 313-316)
updateBody(body, now) ==
    IF MTruthy(body.movies)
    THEN [body EXCEPT !.num_ratings = JNum(Len(body.movies.items)),
                      !.movies = MArr(addTimestampAndDate(body.movies.items, now))]
    ELSE body

\* `!userId`: null and the number 0 are falsy
FalsyId(id) == id = NullId \/ id = NumId(0)

\* router.put("/id/:user_id"): the response and the new users collection
putUser(seg, body, now, us, mv) ==
    LET userId == checkId(seg)
        found == findById(us, userId)
    IN  IF FalsyId(userId)
        THEN [resp |-> Response(400, "invalid id"), users |-> us]
        ELSE IF found = {}
        THEN [resp |-> Response(404, "user does not exist"), users |-> us]
        ELSE IF body.isArray
        THEN [resp |-> Response(400, "body must be an object"), users |-> us]
        ELSE
            LET b == filterValidFields(body.items[1])
                errors == validateUserToUpdate(b, mv)
            IN  IF errors # <<>>
                THEN [resp |-> [Response(400, "invalid user data")
                                  EXCEPT !.details = errors],
                      users |-> us]
                ELSE IF bodyKeys(b) = {}
                THEN [resp |-> Response(400, "no valid fields"), users |-> us]
                ELSE [resp |-> Response(200, ""),
                      users |-> {IF d \in found THEN applySet(d, updateBody(b, now))
                                 ELSE d : d \in us}]

PutUser(seg, body, now) ==
    /\ req = NoReq
    /\ LET out == putUser(seg, body, now, users, movies)
       IN  /\ users' = out.users
           /\ resp' = out.resp
    /\ req' = [Request("PUT /users/id") EXCEPT !.seg = seg, !.body = body, !.now = now]
    /\ UNCHANGED <<movies, cinemas, nextOid, flights>>

\* router.delete("/id/:user_id")
deleteUser(seg, us) ==
    LET userId == checkId(seg)
        found == findById(us, userId)
    IN  IF userId = NullId
        THEN [resp |-> Response(400, "invalid id"), users |-> us]
        ELSE IF found = {}
        THEN [resp |-> Response(404, "user does not exist"), users |-> us]
        ELSE [resp |-> Response(200, ""), users |-> us \ found]

DeleteUser(seg) ==
    /\ req = NoReq
    /\ LET out == deleteUser(seg, users)
       IN  /\ users' = out.users
           /\ resp' = out.resp
    /\ req' = [Request("DELETE /users/id") EXCEPT !.seg = seg]
    /\ UNCHANGED <<movies, cinemas, nextOid, flights>>

TopLimit == 5

\* the rating a $sort stage orders an entry by
SortKey(e) == e.rating.n

\* { $sort: {"movies.rating": -1} }, { $limit: k } over the unwound entries:
\* every sequence the stages can produce (the order of entries of equal
\* rating is not specified by the store)
RECURSIVE sortDescLimit(_, _, _)
sortDescLimit(items, left, k) ==
    IF k = 0 \/ left = {} THEN {<<>>}
    ELSE LET best == {i \in left :
                        \A j \in left : SortKey(items[j]) <= SortKey(items[i])}
         IN  UNION {{<<items[i]>> \o rest :
                        rest \in sortDescLimit(items, left \ {i}, k - 1)} :
                    i \in best}

\* router.get("/id/:user_id"): the responses the handler can send
getUser(seg, us) ==
    LET userId == checkId(seg)
        found == findById(us, userId)
        user == CHOOSE d \in found : TRUE
    IN  IF userId = NullId THEN {Response(400, "invalid id")}
        ELSE IF found = {} THEN {Response(404, "user not found")}
        \* user.movies.length of null or undefined throws
        ELSE IF user.movies.t \in {"null", "absent"}
        THEN {Response(500, "TypeError")}
        ELSE IF user.movies.t = "arr" /\ Len(user.movies.items) = 0
        THEN {[Response(200, "") EXCEPT !.topKind = "string"]}
        ELSE IF user.movies.t = "arr"
        THEN {[Response(200, "") EXCEPT !.topKind = "list", !.topMovies = top] :
                top \in sortDescLimit(user.movies.items,
                                      1..Len(user.movies.items), TopLimit)}
        \* $unwind of a value that is no array gives that one value
        ELSE {[Response(200, "") EXCEPT !.topKind = "list",
                                        !.topMovies = <<NonObjectEntry>>]}

GetUser(seg) ==
    /\ req = NoReq
    /\ resp' \in getUser(seg, users)
    /\ req' = [Request("GET /users/id") EXCEPT !.seg = seg]
    /\ UNCHANGED <<users, movies, cinemas, nextOid, flights>>

(***************************************************************************)
(* The list routes GET /users, GET /movies, GET /cinemas.  A query         *)
(* parameter is a sequence of characters; <<>> is a parameter that is      *)
(* missing (or empty).                                                     *)
(***************************************************************************)
\* Math.ceil(totalDocs / limit) in floating point: x/0 is Infinity, 0/0 is NaN
ceilDiv(totalDocs, limit) ==
    IF limit = 0
    THEN IF totalDocs = 0 THEN NaN ELSE Infinity
    ELSE Finite((totalDocs + limit - 1) \div limit)

\* page > totalPages and page < totalPages: a comparison with NaN is false
GreaterThan(page, x) ==
    CASE x.k = "int" -> page > x.n
      [] OTHER -> FALSE

LessThan(page, x) ==
    CASE x.k = "int" -> page < x.n
      [] x.k = "inf" -> TRUE
      [] OTHER -> FALSE

\* x + 1
PlusOne(x) == IF x.k = "int" THEN Finite(x.n + 1) ELSE x

\* a !== b: NaN differs from every number, itself included
StrictNotEqual(a, b) == a.k = "nan" \/ b.k = "nan" \/ a # b

\* find({}).sort({_id: 1}): the documents in ascending _id order
RECURSIVE sortById(_)
sortById(coll) ==
    IF coll = {} THEN <<>>
    ELSE LET first == CHOOSE d \in coll :
                        \A e \in coll \ {d} : IdLess(d._id, e._id)
         IN  <<first>> \o sortById(coll \ {first})

\* skipLimit that skips one page too many (page * limit documents)
skipLimitNextPage(docs, n, k) ==
    LET last == IF k = 0 THEN Len(docs)
                ELSE IF n + k + k < Len(docs) THEN n + k + k ELSE Len(docs)
    IN  SubSeq(docs, n + k + 1, last)

\* .skip(n).limit(k) of a cursor: limit(0) sets no limit
skipLimit(docs, n, k) ==
    LET last == IF k = 0 THEN Len(docs)
                ELSE IF n + k < Len(docs) THEN n + k ELSE Len(docs)
    IN  SubSeq(docs, n + 1, last)

\* router.get("/") of the three routers
listRoute(pageQ, limitQ, coll) ==
    IF pageQ = <<>> \/ limitQ = <<>>
    THEN Response(302, "redirect to page=1&limit=10")
    ELSE IF ~IsDigits(pageQ) \/ ~IsDigits(limitQ)
    THEN Response(400, "page and limit must be integers")
    ELSE
        LET page == parseInt(pageQ)
            limit == parseInt(limitQ)
            totalDocs == Cardinality(coll)
            totalPages == ceilDiv(totalDocs, limit)
        IN  IF page < 1 \/ GreaterThan(page, totalPages)
            THEN Response(404, "page does not exist")
            ELSE
                LET results == skipLimit(sortById(coll), (page - 1) * limit, limit)
                    prevPage == IF page > 1 THEN Finite(page - 1) ELSE Finite(0)
                    nextPage == IF LessThan(page, totalPages)
                                THEN Finite(page + 1) ELSE PlusOne(totalPages)
                IN  [Response(200, "") EXCEPT !.envelope =
                        [items |-> results,
                         totalDocs |-> totalDocs,
                         currentPageDocs |-> Len(results),
                         totalPages |-> totalPages,
                         currentPage |-> page,
                         hasPrev |-> StrictNotEqual(prevPage, Finite(0)),
                         prevPage |-> prevPage,
                         hasNext |-> StrictNotEqual(nextPage, PlusOne(totalPages)),
                         nextPage |-> nextPage]]

ListRequest(op, pageQ, limitQ) ==
    [Request(op) EXCEPT !.page = pageQ, !.limit = limitQ]

ListUsers(pageQ, limitQ) ==
    /\ req = NoReq
    /\ resp' = listRoute(pageQ, limitQ, users)
    /\ req' = ListRequest("GET /users", pageQ, limitQ)
    /\ UNCHANGED <<users, movies, cinemas, nextOid, flights>>

ListMovies(pageQ, limitQ) ==
    /\ req = NoReq
    /\ resp' = listRoute(pageQ, limitQ, movies)
    /\ req' = ListRequest("GET /movies", pageQ, limitQ)
    /\ UNCHANGED <<users, movies, cinemas, nextOid, flights>>

ListCinemas(pageQ, limitQ) ==
    /\ req = NoReq
    /\ resp' = listRoute(pageQ, limitQ, cinemas)
    /\ req' = ListRequest("GET /cinemas", pageQ, limitQ)
    /\ UNCHANGED <<users, movies, cinemas, nextOid, flights>>

(***************************************************************************)
(* movies router                                                           *)
(***************************************************************************)
\* the genres field of a movie body: absent or an array of scalars
GAbsent == [t |-> "absent", items |-> <<>>]
GArr(items) == [t |-> "arr", items |-> items]

MovieBody(title, year, genres) ==
    [title |-> title, year |-> year, genres |-> genres, other |-> Absent]

\* filterValidFields of movies: keeps title, year, genres
filterMovieFields(movie) == [movie EXCEPT !.other = Absent]

\* collection.distinct('genres'): the genres of the stored movies
distinctGenres(mv) == UNION {{d.genres[i] : i \in 1..Len(d.genres)} : d \in mv}

\* what the call db.collection('movies').distinct('genres') gives validateMovie,
\* which does not await it: a pending Promise, not the array of genres
Promise == [pending |-> TRUE]
availableGenresOfValidateMovie(mv) == Promise

\* availableGenres.includes(genre): a Promise has no method includes, the
\* call throws a TypeError
includesThrows(available) == available = Promise

\* validateMovie: the errors, or the exception it ends with
validateMovie(movie, mv) ==
    LET titleErr == IF ~Truthy(movie.title) \/ movie.title.t # "str"
                       \/ Trim(movie.title.s) = ""
                    THEN <<Err("title invalid", -1)>> ELSE <<>>
        yearErr == IF ~Truthy(movie.year) \/ movie.year.t # "num"
                      \/ movie.year.n <= 1500
                   THEN <<Err("year invalid", -1)>> ELSE <<>>
        g == movie.genres
        available == availableGenresOfValidateMovie(mv)
        genreErr(x) == IF x.t # "str" THEN <<Err("genres must be strings", -1)>>
                       ELSE IF x \notin available
                       THEN <<Err("genre not valid", -1)>> ELSE <<>>
        RECURSIVE genresErrs(_)
        genresErrs(i) == IF i > Len(g.items) THEN <<>>
                         ELSE genreErr(g.items[i]) \o genresErrs(i + 1)
    IN  IF g.t # "arr" \/ Len(g.items) = 0
        THEN [throws |-> FALSE,
              errors |-> titleErr \o yearErr \o <<Err("genres invalid", -1)>>]
        ELSE IF includesThrows(available)
                /\ \E i \in 1..Len(g.items) : g.items[i].t = "str"
        THEN [throws |-> TRUE, errors |-> <<>>]
        ELSE [throws |-> FALSE, errors |-> titleErr \o yearErr \o genresErrs(1)]

\* router.post("/") of movies: the response and the new store
postMovies(body, mv, oid) ==
    IF ~body.isArray
    THEN [resp |-> Response(400, "body must be an array"), movies |-> mv, nextOid |-> oid]
    ELSE
        LET n == Len(body.items)
            filtered == [i \in 1..n |-> filterMovieFields(body.items[i])]
            checked == [i \in 1..n |-> validateMovie(filtered[i], mv)]
            errorsArray == errorsArrayFrom([i \in 1..n |-> checked[i].errors], 1)
            docs == [i \in 1..n |->
                        [title |-> filtered[i].title, year |-> filtered[i].year,
                         genres |-> filtered[i].genres.items]]
        IN  IF \E i \in 1..n : checked[i].throws
            THEN [resp |-> Response(500, "TypeError"), movies |-> mv, nextOid |-> oid]
            ELSE IF errorsArray # <<>>
            THEN [resp |-> [Response(400, "invalid movie data")
                              EXCEPT !.details = errorsArray],
                  movies |-> mv, nextOid |-> oid]
            ELSE IF n = 0   \* insertMany([]) throws: the batch cannot be empty
            THEN [resp |-> Response(500, "empty batch"), movies |-> mv, nextOid |-> oid]
            ELSE [resp |-> Response(201, ""),
                  movies |-> insertMany(mv, docs, oid), nextOid |-> oid + n]

PostMovies(body) ==
    /\ req = NoReq
    /\ LET out == postMovies(body, movies, nextOid)
       IN  /\ out.nextOid - 1 <= MaxOid
           /\ movies' = out.movies
           /\ nextOid' = out.nextOid
           /\ resp' = out.resp
    /\ req' = [Request("POST /movies") EXCEPT !.body = body]
    /\ UNCHANGED <<users, cinemas, flights>>

\* router.delete("/id/:movie_id")
deleteMovie(seg, mv) ==
    LET movieId == checkId(seg)
        found == findById(mv, movieId)
    IN  IF movieId = NullId
        THEN [resp |-> Response(400, "invalid id"), movies |-> mv]
        ELSE IF found = {}
        THEN [resp |-> Response(404, "movie does not exist"), movies |-> mv]
        ELSE [resp |-> Response(200, ""), movies |-> mv \ found]

DeleteMovie(seg) ==
    /\ req = NoReq
    /\ LET out == deleteMovie(seg, movies)
       IN  /\ movies' = out.movies
           /\ resp' = out.resp
    /\ req' = [Request("DELETE /movies/id") EXCEPT !.seg = seg]
    /\ UNCHANGED <<users, cinemas, nextOid, flights>>

\* $unwind "$movies" over the users: the rating entries of the users whose
\* movies is an array, as [user, i] pairs
unwindMovies(us) ==
    UNION {{<<u, i>> : i \in 1..Len(u.movies.items)} :
              u \in {x \in us : x.movies.t = "arr"}}

\* the sum of the ratings of a set of unwound entries
RECURSIVE sumRatings(_)
sumRatings(entries) ==
    IF entries = {} THEN 0
    ELSE LET e == CHOOSE x \in entries : TRUE
         IN  e[1].movies.items[e[2]].rating.n + sumRatings(entries \ {e})

\* { $avg: "$movies.rating" } of a group: the sum and the number of ratings
avgRating(entries) == [sum |-> sumRatings(entries), count |-> Cardinality(entries)]

\* the entries { $match: {"movies.movieid": movieId} } keeps
matchMovieid(us, movieId) ==
    {e \in unwindMovies(us) :
        LET id == e[1].movies.items[e[2]].movieid
        IN  id.t = "num" /\ NumId(id.n) = movieId}

\* router.get("/id/:movie_id"): the movie with its average rating
getMovie(seg, mv, us) ==
    LET movieId == checkId(seg)
        found == findById(mv, movieId)
        movie == CHOOSE d \in found : TRUE
        rated == matchMovieid(us, movieId)
    IN  IF movieId = NullId THEN Response(400, "invalid id")
        ELSE IF found = {} THEN Response(404, "movie not found")
        ELSE [Response(200, "") EXCEPT !.results =
                <<[movie |-> movie,
                   averageRating |-> IF rated # {} THEN avgRating(rated)
                                     ELSE [sum |-> 0, count |-> 0]]>>]

GetMovie(seg) ==
    /\ req = NoReq
    /\ resp' = getMovie(seg, movies, users)
    /\ req' = [Request("GET /movies/id") EXCEPT !.seg = seg]
    /\ UNCHANGED <<users, movies, cinemas, nextOid, flights>>

\* a genres value that is neither absent nor an array: the string "abc"
GStr == [t |-> "str", items |-> <<>>]

\* validateMovieToUpdate: it awaits distinct('genres')
validateMovieToUpdate(movie, mv) ==
    LET g == movie.genres
        available == distinctGenres(mv)
        genreErr(x) == IF x.t # "str" THEN <<Err("genres must be strings", -1)>>
                       ELSE IF x \notin available
                       THEN <<Err("genre not valid", -1)>> ELSE <<>>
        RECURSIVE genresErrs(_)
        genresErrs(i) == IF i > Len(g.items) THEN <<>>
                         ELSE genreErr(g.items[i]) \o genresErrs(i + 1)
    IN  (IF Truthy(movie.title) /\ movie.title.t # "str"
         THEN <<Err("title must be a string", -1)>> ELSE <<>>)
        \o (IF Truthy(movie.year) /\ (movie.year.t # "num" \/ movie.year.n < 1500)
            THEN <<Err("year invalid", -1)>> ELSE <<>>)
        \o (IF g.t \in {"str", "arr"}
            THEN IF g.t # "arr" THEN <<Err("genres must be an array", -1)>>
                 ELSE IF Len(g.items) = 0 THEN <<Err("genres is empty", -1)>>
                 ELSE genresErrs(1)
            ELSE <<>>)

\* Object.keys(body) of a filtered movie body
movieBodyKeys(body) == {f \in {"title", "year", "genres"} : body[f].t # "absent"}

\* updateOne({_id}, {$set: body}) of a movie: a genres array is stored as
\* the sequence of its items
applySetMovie(doc, body) ==
    [f \in DOMAIN doc |->
        IF f \in movieBodyKeys(body)
        THEN IF f = "genres" THEN body.genres.items ELSE body[f]
        ELSE doc[f]]

\* router.put("/id/:movie_id"): the response and the new movies collection
putMovie(seg, body, mv) ==
    LET movieId == checkId(seg)
        found == findById(mv, movieId)
    IN  IF FalsyId(movieId)
        THEN [resp |-> Response(400, "invalid id"), movies |-> mv]
        ELSE IF found = {}
        THEN [resp |-> Response(404, "movie does not exist"), movies |-> mv]
        ELSE IF body.isArray
        THEN [resp |-> Response(400, "body must be an object"), movies |-> mv]
        ELSE
            LET b == filterMovieFields(body.items[1])
                errors == validateMovieToUpdate(b, mv)
            IN  IF errors # <<>>
                THEN [resp |-> [Response(400, "invalid movie data")
                                  EXCEPT !.details = errors],
                      movies |-> mv]
                ELSE IF movieBodyKeys(b) = {}
                THEN [resp |-> Response(400, "no valid fields"), movies |-> mv]
                ELSE [resp |-> Response(200, ""),
                      movies |-> {IF d \in found THEN applySetMovie(d, b)
                                  ELSE d : d \in mv}]

PutMovie(seg, body) ==
    /\ req = NoReq
    /\ LET out == putMovie(seg, body, movies)
       IN  /\ movies' = out.movies
           /\ resp' = out.resp
    /\ req' = [Request("PUT /movies/id") EXCEPT !.seg = seg, !.body = body]
    /\ UNCHANGED <<users, cinemas, nextOid, flights>>

(***************************************************************************)
(* The analytical routes of the movies router: aggregations over the       *)
(* users' ratings joined to the movies.  A row is [_id, key, movie]: the   *)
(* movieid of the group, the value the rows are sorted by as a fraction    *)
(* [num, den], and the joined movie.                                       *)
(***************************************************************************)
\* res.send(body).status(code): the response is sent with the status the
\* response object has at that moment, the default 200; status(code) after
\* it changes nothing the client sees
sendThenStatus(message, code) == Response(200, message)

\* the unwound entry of a [user, i] pair
entryOf(e) == e[1].movies.items[e[2]]

\* { $group: { _id: "$movies.movieid", ... } }: the entries of one movieid
groupOf(us, movieid) == {e \in unwindMovies(us) : entryOf(e).movieid = movieid}

\* the accumulator of a group: $avg of the ratings, $sum of the ratings, or
\* the number of ratings that are 5
accumulate(kind, entries) ==
    CASE kind = "avg" -> [num |-> sumRatings(entries), den |-> Cardinality(entries)]
      [] kind = "sum" -> [num |-> sumRatings(entries), den |-> 1]
      [] OTHER -> [num |-> Cardinality({e \in entries : entryOf(e).rating = JNum(5)}),
                   den |-> 1]

\* $unwind, $group, $lookup into movies, $unwind "$movieinfo": one row for
\* every rated movieid that is the _id of a stored movie
ratedMovies(kind, us, mv) ==
    {[_id |-> id, key |-> accumulate(kind, groupOf(us, id)),
      movie |-> CHOOSE d \in findMovie(mv, id) : TRUE] :
        id \in {x \in {entryOf(e).movieid : e \in unwindMovies(us)} :
                    findMovie(mv, x) # {}}}

\* a.key <= b.key as fractions
KeyLeq(a, b) == a.key.num * b.key.den <= b.key.num * a.key.den

\* { $sort: { key: order } } then { $limit: k }: every sequence the stages
\* can produce (the order of rows of equal key is not specified)
RECURSIVE sortRowsLimit(_, _, _)
sortRowsLimit(rows, order, k) ==
    IF k = 0 \/ rows = {} THEN {<<>>}
    ELSE LET first == {r \in rows : \A q \in rows :
                          IF order = 1 THEN KeyLeq(r, q) ELSE KeyLeq(q, r)}
         IN  UNION {{<<r>> \o rest : rest \in sortRowsLimit(rows \ {r}, order, k - 1)} :
                    r \in first}

\* the validation of /higher/:num_movies that only tests the digits
higherRejectsNonDigits(seg) == ~IsDigits(seg)

\* !isNum_moviesNumeric || req.params.num_movies <= 0 (the string is
\* compared as a number)
higherRejects(seg) == ~IsDigits(seg) \/ parseInt(seg) <= 0

\* router.get('/higher/:num_movies'): the responses the handler can send
higher(seg, us, mv) ==
    IF higherRejects(seg) THEN {Response(400, "must be a positive integer")}
    ELSE LET rows == ratedMovies("avg", us, mv)
         IN  IF rows = {}
             THEN {[sendThenStatus("no movies found", 404) EXCEPT !.queried = TRUE]}
             ELSE {[sendThenStatus("", 200) EXCEPT !.queried = TRUE, !.results = r] :
                      r \in sortRowsLimit(rows, -1, parseInt(seg))}

Higher(seg) ==
    /\ req = NoReq
    /\ resp' \in higher(seg, users, movies)
    /\ req' = [Request("GET /movies/higher") EXCEPT !.seg = seg]
    /\ UNCHANGED <<users, movies, cinemas, nextOid, flights>>

\* router.get('/ratings/:order'): order is "asc", "desc" or something else
ratings(order, us, mv) ==
    IF order # "asc" /\ order # "desc" THEN {Response(400, "order must be asc or desc")}
    ELSE LET rows == ratedMovies("sum", us, mv)
         IN  IF rows = {}
             THEN {[sendThenStatus("no movies found", 404) EXCEPT !.queried = TRUE]}
             ELSE {[sendThenStatus("", 200) EXCEPT !.queried = TRUE, !.results = r] :
                      r \in sortRowsLimit(rows, IF order = "asc" THEN 1 ELSE -1,
                                          Cardinality(rows))}

Ratings(order) ==
    /\ req = NoReq
    /\ resp' \in ratings(order, users, movies)
    /\ req' = [Request("GET /movies/ratings") EXCEPT !.order = order]
    /\ UNCHANGED <<users, movies, cinemas, nextOid, flights>>

\* router.get('/star')
star(us, mv) ==
    LET rows == ratedMovies("star", us, mv)
    IN  IF rows = {}
        THEN {[sendThenStatus("no movies found", 404) EXCEPT !.queried = TRUE]}
        ELSE {[sendThenStatus("", 200) EXCEPT !.queried = TRUE, !.results = r] :
                 r \in sortRowsLimit(rows, -1, Cardinality(rows))}

Star ==
    /\ req = NoReq
    /\ resp' \in star(users, movies)
    /\ req' = Request("GET /movies/star")
    /\ UNCHANGED <<users, movies, cinemas, nextOid, flights>>

(***************************************************************************)
(* cinemas router: attaching movies to a cinema and listing them.  A       *)
(* cinema's movies is the sequence of the ids as the requests gave them    *)
(* (JSON values); a cinema without the key reads as one with no movies.    *)
(***************************************************************************)
\* new ObjectId(seg) throws for a string that is no ObjectId
newObjectIdThrows(seg) == ~ObjectIdIsValid(seg)

\* Array.prototype.includes
Includes(list, x) == \E i \in 1..Len(list) : list[i] = x

\* the loop of PUT /cinemas/id/:id that pushes every id, also one that is
\* already in the list
attachMoviesAgain(ids, from, list, missing, mv) ==
    LET RECURSIVE loop(_, _, _)
        loop(k, l, m) ==
            IF k > Len(ids) THEN [movies |-> l, filmesNaoAdicionados |-> m]
            ELSE IF findMovie(mv, ids[k]) = {}
            THEN loop(k + 1, l, Append(m, ids[k]))
            ELSE loop(k + 1, Append(l, ids[k]), m)
    IN  loop(from, list, missing)

\* the loop of PUT /cinemas/id/:id over req.body.movies (lines 446-457)
attachMovies(ids, from, list, missing, mv) ==
    LET RECURSIVE loop(_, _, _)
        loop(k, l, m) ==
            IF k > Len(ids) THEN [movies |-> l, filmesNaoAdicionados |-> m]
            ELSE IF findMovie(mv, ids[k]) = {}
            THEN loop(k + 1, l, Append(m, ids[k]))
            ELSE IF ~Includes(l, ids[k])
            THEN loop(k + 1, Append(l, ids[k]), m)
            ELSE loop(k + 1, l, m)
    IN  loop(from, list, missing)

\* router.put("/id/:id_cinema"): the response and the new cinemas collection
putCinema(seg, body, cs, mv) ==
    IF newObjectIdThrows(seg)
    THEN [resp |-> Response(500, "BSONError"), cinemas |-> cs]
    ELSE
        LET found == findById(cs, ObjectId(seg))
            cinema == CHOOSE d \in found : TRUE
            b == body.items[1]
        IN  IF found = {}
            THEN [resp |-> Response(404, "cinema not found"), cinemas |-> cs]
            ELSE IF ~MTruthy(b.movies)
            THEN [resp |-> Response(400, "body must have movies"), cinemas |-> cs]
            ELSE IF b.movies.t # "arr"
            THEN [resp |-> Response(400, "movies must be an array"), cinemas |-> cs]
            ELSE
                LET out == attachMovies(b.movies.items, 1, cinema.movies, <<>>, mv)
                IN  IF Len(out.filmesNaoAdicionados) = Len(b.movies.items)
                    THEN [resp |-> Response(404, "movies not found"), cinemas |-> cs]
                    ELSE [resp |-> [Response(200, "")
                                      EXCEPT !.details = out.filmesNaoAdicionados],
                          cinemas |-> {IF d \in found
                                       THEN [d EXCEPT !.movies = out.movies]
                                       ELSE d : d \in cs}]

PutCinema(seg, body) ==
    /\ req = NoReq
    /\ LET out == putCinema(seg, body, cinemas, movies)
       IN  /\ cinemas' = out.cinemas
           /\ resp' = out.resp
    /\ req' = [Request("PUT /cinemas/id") EXCEPT !.seg = seg, !.body = body]
    /\ UNCHANGED <<users, movies, nextOid, flights>>

\* router.get("/movies/:id_cinema"): one findOne for every id of the list
\* (the set is empty where findOne gives null)
getCinemaMovies(seg, cs, mv) ==
    IF newObjectIdThrows(seg) THEN Response(500, "BSONError")
    ELSE
        LET found == findById(cs, ObjectId(seg))
            cinema == CHOOSE d \in found : TRUE
        IN  IF found = {} THEN Response(404, "cinema not found")
            ELSE IF Len(cinema.movies) = 0 THEN Response(404, "no movies showing")
            ELSE [Response(200, "") EXCEPT !.results =
                    [i \in 1..Len(cinema.movies) |-> findMovie(mv, cinema.movies[i])]]

GetCinemaMovies(seg) ==
    /\ req = NoReq
    /\ resp' = getCinemaMovies(seg, cinemas, movies)
    /\ req' = [Request("GET /cinemas/movies") EXCEPT !.seg = seg]
    /\ UNCHANGED <<users, movies, cinemas, nextOid, flights>>

\* /^[a-zA-Z]+$/ on the genre names of the model: "Sci-Fi" has a character
\* that is no letter
IsLetters(genre) == genre \in {"Drama", "Comedy", "Western"}

\* find({genres: genre, year: year}) with year the path segment, a string:
\* a stored year matches when it is that string; no number equals a string
findByGenreYear(mv, genre, year) ==
    {d \in mv : /\ Includes(d.genres, JStr(genre))
                /\ d.year.t = "str"
                /\ d.year.s = year}

\* router.get("/genres/:genre_name/year/:year"); thisYear is
\* new Date().getFullYear()
genreYear(genre, year, thisYear, mv) ==
    IF ~IsLetters(genre) \/ ~IsDigits(year)
    THEN Response(400, "genre must be letters and year an integer")
    ELSE IF JStr(genre) \notin distinctGenres(mv)
    THEN [Response(404, "genre not found") EXCEPT !.details = distinctGenres(mv)]
    ELSE IF parseInt(year) < 1500 \/ parseInt(year) > thisYear
    THEN Response(400, "invalid year")
    ELSE LET found == findByGenreYear(mv, genre, year)
         IN  IF found = {}
             THEN [Response(404, "no movie found") EXCEPT !.queried = TRUE]
             ELSE [sendThenStatus("", 200) EXCEPT !.queried = TRUE,
                                                  !.results = sortById(found)]

GenreYear(genre, year, thisYear) ==
    /\ req = NoReq
    /\ resp' = genreYear(genre, year, thisYear, movies)
    /\ req' = [Request("GET /movies/genres/year") EXCEPT
                  !.genre = genre, !.year = year, !.now = thisYear]
    /\ UNCHANGED <<users, movies, cinemas, nextOid, flights>>

(***************************************************************************)
(* The geospatial routes of the cinemas router.  Coordinates are whole     *)
(* degrees between -89 and 89: two different points are more than 5 km     *)
(* apart, and a point is on the line between two others when it is one of  *)
(* them or lies between them on their meridian.                            *)
(***************************************************************************)
\* the digits a string starts with
RECURSIVE leadingDigits(_)
leadingDigits(seg) ==
    IF seg = <<>> \/ ~IsDigit(Head(seg)) THEN <<>>
    ELSE <<Head(seg)>> \o leadingDigits(Tail(seg))

\* parseFloat of a string of digits, "-" and letters: the number its longest
\* numeric prefix denotes, NaN when it has none
parseFloat(seg) ==
    LET negative == seg # <<>> /\ Head(seg) = "-"
        digits == leadingDigits(IF negative THEN Tail(seg) ELSE seg)
    IN  IF digits = <<>> THEN NaN
        ELSE Finite(IF negative THEN 0 - parseInt(digits) ELSE parseInt(digits))

\* a test that only NaN fails
FalsyNumberOnlyNaN(x) == x.k = "nan"

\* !x for a number: NaN, 0 and -0 are falsy
FalsyNumber(x) == x.k = "nan" \/ (x.k = "int" /\ x.n = 0)

\* the cinemas whose point is the given point
atPoint(cs, lng, lat) ==
    {c \in cs : c.geometry = [lng |-> lng.n, lat |-> lat.n]}

\* the cinemas within 5 km of a point: those at the point
within5km(cs, lng, lat) == atPoint(cs, lng, lat)

\* the cinemas whose point intersects the line between two points
onLine(cs, lng1, lat1, lng2, lat2) ==
    {c \in cs :
        \/ c.geometry = [lng |-> lng1.n, lat |-> lat1.n]
        \/ c.geometry = [lng |-> lng2.n, lat |-> lat2.n]
        \/ /\ lng1.n = lng2.n
           /\ c.geometry.lng = lng1.n
           /\ \/ lat1.n <= c.geometry.lat /\ c.geometry.lat <= lat2.n
              \/ lat2.n <= c.geometry.lat /\ c.geometry.lat <= lat1.n}

\* router.get('/near/lng_lat/:lng/:lat')
near(lng, lat, cs) ==
    LET latitude == parseFloat(lat)
        longitude == parseFloat(lng)
        results == within5km(cs, longitude, latitude)
    IN  IF FalsyNumber(latitude) \/ FalsyNumber(longitude)
        THEN Response(400, "latitude and longitude are required")
        ELSE IF results = {}
        THEN [Response(404, "no cinemas near") EXCEPT !.queried = TRUE]
        ELSE [Response(200, "") EXCEPT !.queried = TRUE, !.results = sortById(results)]

Near(lng, lat) ==
    /\ req = NoReq
    /\ resp' = near(lng, lat, cinemas)
    /\ req' = [Request("GET /cinemas/near") EXCEPT !.coords = <<lng, lat>>]
    /\ UNCHANGED <<users, movies, cinemas, nextOid, flights>>

\* router.get('/near/line/lng_lat/:lng1/:lat1/:lng2/:lat2')
line(lng1, lat1, lng2, lat2, cs) ==
    LET latitude1 == parseFloat(lat1)
        longitude1 == parseFloat(lng1)
        latitude2 == parseFloat(lat2)
        longitude2 == parseFloat(lng2)
        results == onLine(cs, longitude1, latitude1, longitude2, latitude2)
    IN  IF FalsyNumber(latitude1) \/ FalsyNumber(longitude1)
           \/ FalsyNumber(latitude2) \/ FalsyNumber(longitude2)
        THEN Response(400, "latitude and longitude are required")
        ELSE IF results = {}
        THEN [Response(404, "no cinemas on the line") EXCEPT !.queried = TRUE]
        ELSE [Response(200, "") EXCEPT !.queried = TRUE, !.results = sortById(results)]

Line(lng1, lat1, lng2, lat2) ==
    /\ req = NoReq
    /\ resp' = line(lng1, lat1, lng2, lat2, cinemas)
    /\ req' = [Request("GET /cinemas/near/line") EXCEPT
                  !.coords = <<lng1, lat1, lng2, lat2>>]
    /\ UNCHANGED <<users, movies, cinemas, nextOid, flights>>

\* router.get('/near/sum/lng_lat/:lng/:lat')
sum(lng, lat, cs) ==
    LET latitude == parseFloat(lat)
        longitude == parseFloat(lng)
        count == Cardinality(within5km(cs, longitude, latitude))
    IN  IF FalsyNumber(latitude) \/ FalsyNumber(longitude)
        THEN Response(400, "latitude and longitude are required")
        ELSE IF count = 0
        THEN [Response(404, "no cinemas near") EXCEPT !.queried = TRUE]
        ELSE [Response(200, "") EXCEPT !.queried = TRUE,
                                       !.results = <<[Cinemas |-> count]>>]

Sum(lng, lat) ==
    /\ req = NoReq
    /\ resp' = sum(lng, lat, cinemas)
    /\ req' = [Request("GET /cinemas/near/sum") EXCEPT !.coords = <<lng, lat>>]
    /\ UNCHANGED <<users, movies, cinemas, nextOid, flights>>

\* router.get('/within/long_lat/:lng/:lat')
within(lng, lat, cs) ==
    LET latitude == parseFloat(lat)
        longitude == parseFloat(lng)
        result == atPoint(cs, longitude, latitude)
    IN  IF FalsyNumber(latitude) \/ FalsyNumber(longitude)
        THEN Response(400, "latitude and longitude are required")
        ELSE IF result = {}
        THEN [Response(400, "not in the festival") EXCEPT !.queried = TRUE]
        ELSE [Response(200, "") EXCEPT !.queried = TRUE, !.results = sortById(result)]

Within(lng, lat) ==
    /\ req = NoReq
    /\ resp' = within(lng, lat, cinemas)
    /\ req' = [Request("GET /cinemas/within") EXCEPT !.coords = <<lng, lat>>]
    /\ UNCHANGED <<users, movies, cinemas, nextOid, flights>>

(***************************************************************************)
(* POST /users and PUT /users/id/:id as flights.  The handler validates    *)
(* the rating entries one after the other, each with its own findOne on    *)
(* movies, and writes after the last one; another client's                 *)
(* DELETE /movies/id/:id can take effect between any two of these calls.   *)
(***************************************************************************)
\* the rating entries of the filtered users of a POST body, in the order in
\* which validateUser is called on them
RECURSIVE entriesOfUsers(_, _)
entriesOfUsers(items, from) ==
    IF from > Len(items) THEN <<>>
    ELSE (IF items[from].movies.t = "arr" THEN items[from].movies.items ELSE <<>>)
         \o entriesOfUsers(items, from + 1)

\* the rating entries a flight validates
flightEntries(flight) ==
    IF flight.op = "POST /users" THEN entriesOfUsers(flight.body.items, 1)
    ELSE IF flight.body.items[1].movies.t = "arr"
    THEN flight.body.items[1].movies.items
    ELSE <<>>

\* the errors of the entries of one user, entry j checked against the
\* answer its own findOne gave (the offset-th lookups are the user's)
RECURSIVE entryErrors(_, _, _, _, _)
entryErrors(op, items, lookups, offset, from) ==
    IF from > Len(items) THEN <<>>
    ELSE (IF op = "POST /users"
          THEN validateUserEntry(items[from], from - 1, lookups[offset + from])
          ELSE validateUserToUpdateEntry(items[from], from - 1, lookups[offset + from]))
         \o entryErrors(op, items, lookups, offset, from + 1)

\* a validation that reports no error for the entries
flightErrorsOfFieldsOnly(op, user, lookups, offset) ==
    IF op = "POST /users"
    THEN validateUser([user EXCEPT !.movies = MAbsent], {})
    ELSE validateUserToUpdate([user EXCEPT !.movies = MAbsent], {})

\* validateUser / validateUserToUpdate of one user of a flight: the errors
\* of the fields, then those of movies
flightErrors(op, user, lookups, offset) ==
    (IF op = "POST /users"
     THEN validateUser([user EXCEPT !.movies = MAbsent], {})
     ELSE validateUserToUpdate([user EXCEPT !.movies = MAbsent], {}))
    \o (IF MTruthy(user.movies)
        THEN IF user.movies.t # "arr"
             THEN <<Err("movies must be an array", -1)>>
             ELSE entryErrors(op, user.movies.items, lookups, offset, 1)
        ELSE <<>>)

\* router.post("/") up to the first validateUser
BeginPostUsers(c, body, now) ==
    /\ flights[c].pc = "idle"
    /\ flights' = [flights EXCEPT ![c] =
          IF ~body.isArray
          THEN Answer([NoFlight EXCEPT !.op = "POST /users", !.body = body], 400)
          ELSE [NoFlight EXCEPT
                   !.pc = "validate", !.op = "POST /users", !.now = now,
                   !.body = ArrayBody([i \in 1..Len(body.items) |->
                                          filterValidFields(body.items[i])])]]
    /\ UNCHANGED <<users, movies, cinemas, nextOid, req, resp>>

\* router.put("/id/:user_id") up to validateUserToUpdate
BeginPutUser(c, seg, body, now) ==
    /\ flights[c].pc = "idle"
    /\ LET userId == checkId(seg)
           flight == [NoFlight EXCEPT !.op = "PUT /users/id", !.seg = seg,
                                      !.body = body, !.now = now]
       IN  flights' = [flights EXCEPT ![c] =
              IF FalsyId(userId) THEN Answer(flight, 400)
              ELSE IF findById(users, userId) = {} THEN Answer(flight, 404)
              ELSE IF body.isArray THEN Answer(flight, 400)
              ELSE [flight EXCEPT
                       !.pc = "validate",
                       !.body = ObjectBody(filterValidFields(body.items[1]))]]
    /\ UNCHANGED <<users, movies, cinemas, nextOid, req, resp>>

\* the validation of the next rating entry: its findOne on movies
ValidateEntry(c) ==
    /\ flights[c].pc = "validate"
    /\ Len(flights[c].lookups) < Len(flightEntries(flights[c]))
    /\ LET movie == flightEntries(flights[c])[Len(flights[c].lookups) + 1]
       IN  flights' = [flights EXCEPT ![c].lookups =
              Append(@, IF movie.obj THEN findMovie(movies, movie.movieid) ELSE {})]
    /\ UNCHANGED <<users, movies, cinemas, nextOid, req, resp>>

\* the rest of router.post("/") after the last validateUser: the response
\* and the new store
writePostUsers(flight, us, oid) ==
    LET items == flight.body.items
        n == Len(items)
        offset(i) == Len(entriesOfUsers(SubSeq(items, 1, i - 1), 1))
        errors == [i \in 1..n |->
                      flightErrors(flight.op, items[i], flight.lookups, offset(i))]
        throws == \E i \in 1..n : MTruthy(items[i].movies) /\ items[i].movies.t # "arr"
        docs == [i \in 1..n |-> newUser(items[i], flight.now)]
    IN  IF throws THEN [status |-> 500, users |-> us, nextOid |-> oid]
        ELSE IF errorsArrayFrom(errors, 1) # <<>>
        THEN [status |-> 400, users |-> us, nextOid |-> oid]
        ELSE IF n = 0 THEN [status |-> 500, users |-> us, nextOid |-> oid]
        ELSE [status |-> 201, users |-> insertMany(us, docs, oid), nextOid |-> oid + n]

\* the rest of router.put("/id/:user_id") after validateUserToUpdate
writePutUser(flight, us) ==
    LET b == flight.body.items[1]
        found == findById(us, checkId(flight.seg))
    IN  IF flightErrors(flight.op, b, flight.lookups, 0) # <<>>
        THEN [status |-> 400, users |-> us]
        ELSE IF bodyKeys(b) = {} THEN [status |-> 400, users |-> us]
        ELSE [status |-> 200,
              users |-> {IF d \in found THEN applySet(d, updateBody(b, flight.now))
                         ELSE d : d \in us}]

\* the handler's last stretch: it tests the errors, writes and answers
WriteUsers(c) ==
    /\ flights[c].pc = "validate"
    /\ Len(flights[c].lookups) = Len(flightEntries(flights[c]))
    /\ IF flights[c].op = "POST /users"
       THEN LET out == writePostUsers(flights[c], users, nextOid)
            IN  /\ out.nextOid - 1 <= MaxOid
                /\ users' = out.users
                /\ nextOid' = out.nextOid
                /\ flights' = [flights EXCEPT ![c] = Answer(@, out.status)]
       ELSE LET out == writePutUser(flights[c], users)
            IN  /\ users' = out.users
                /\ nextOid' = nextOid
                /\ flights' = [flights EXCEPT ![c] = Answer(@, out.status)]
    /\ UNCHANGED <<movies, cinemas, req, resp>>

\* another client's DELETE /movies/id/:id takes effect (its deleteOne): a
\* handler that is validating is overtaken when a movie it has found goes
DeleteMovieMeanwhile(seg) ==
    /\ LET out == deleteMovie(seg, movies)
       IN  /\ movies' = out.movies
           /\ flights' = [c \in Clients |->
                 IF /\ flights[c].pc = "validate"
                    /\ \E k \in 1..Len(flights[c].lookups) :
                           flights[c].lookups[k] \ out.movies # {}
                 THEN [flights[c] EXCEPT !.overtaken = TRUE]
                 ELSE flights[c]]
    /\ UNCHANGED <<users, cinemas, nextOid, req, resp>>

\* the client has its response and may send its next request
Finish(c) ==
    /\ flights[c].pc = "done"
    /\ flights' = [flights EXCEPT ![c] = NoFlight]
    /\ UNCHANGED <<users, movies, cinemas, nextOid, req, resp>>

(***************************************************************************)
(* PUT /cinemas/id/:id_cinema as a flight: the handler reads the cinema,   *)
(* looks every supplied movie up with its own findOne while it extends its *)
(* copy of the list, and writes the copy back with $set.                   *)
(***************************************************************************)
\* router.put("/id/:id_cinema") up to the loop over req.body.movies
BeginPutCinema(c, seg, body) ==
    /\ flights[c].pc = "idle"
    /\ LET flight == [NoFlight EXCEPT !.op = "PUT /cinemas/id", !.seg = seg,
                                      !.body = body]
           found == findById(cinemas, ObjectId(seg))
           cinema == CHOOSE d \in found : TRUE
           b == body.items[1]
       IN  flights' = [flights EXCEPT ![c] =
              IF newObjectIdThrows(seg) THEN Answer(flight, 500)
              ELSE IF found = {} THEN Answer(flight, 404)
              ELSE IF ~MTruthy(b.movies) THEN Answer(flight, 400)
              ELSE IF b.movies.t # "arr" THEN Answer(flight, 400)
              ELSE [flight EXCEPT !.pc = "attach", !.before = cinema.movies,
                                  !.list = cinema.movies]]
    /\ UNCHANGED <<users, movies, cinemas, nextOid, req, resp>>

\* one turn of the loop: the findOne of the next movie id, then the push
AttachStep(c) ==
    /\ flights[c].pc = "attach"
    /\ Len(flights[c].lookups) < Len(flights[c].body.items[1].movies.items)
    /\ LET movieId == flights[c].body.items[1].movies.items[Len(flights[c].lookups) + 1]
           out == attachMovies(<<movieId>>, 1, flights[c].list, flights[c].missing,
                               movies)
       IN  flights' = [flights EXCEPT
                          ![c].lookups = Append(@, findMovie(movies, movieId)),
                          ![c].list = out.movies,
                          ![c].missing = out.filmesNaoAdicionados]
    /\ UNCHANGED <<users, movies, cinemas, nextOid, req, resp>>

\* after the loop: 404 when no supplied movie exists, else the updateOne
\* that sets the cinema's movies to the handler's list
WriteCinema(c) ==
    /\ flights[c].pc = "attach"
    /\ Len(flights[c].lookups) = Len(flights[c].body.items[1].movies.items)
    /\ IF Len(flights[c].missing) = Len(flights[c].body.items[1].movies.items)
       THEN /\ cinemas' = cinemas
            /\ flights' = [flights EXCEPT ![c] = Answer(@, 404)]
       ELSE /\ cinemas' = {IF d \in findById(cinemas, ObjectId(flights[c].seg))
                           THEN [d EXCEPT !.movies = flights[c].list]
                           ELSE d : d \in cinemas}
            /\ flights' = [flights EXCEPT ![c] = Answer(@, 200)]
    /\ UNCHANGED <<users, movies, nextOid, req, resp>>

\* the response has been sent: the server takes the next request
Await ==
    /\ req # NoReq
    /\ req' = NoReq
    /\ resp' = NoResp
    /\ UNCHANGED <<users, movies, cinemas, nextOid, flights>>

(***************************************************************************)
(* The requests of the specification Spec: the users router.               *)
(***************************************************************************)
Times == 1..MaxTime

RECURSIVE SeqsUpTo(_, _)
SeqsUpTo(S, n) ==
    IF n = 0 THEN {<<>>}
    ELSE LET shorter == SeqsUpTo(S, n - 1)
         IN  shorter \cup {Append(q, x) : q \in {r \in shorter : Len(r) = n - 1}, x \in S}

UserBody(name, gender, age, occupation, mvs, other) ==
    [name |-> name, gender |-> gender, age |-> age, occupation |-> occupation,
     movies |-> mvs, num_ratings |-> other]

NoFields == UserBody(Absent, Absent, Absent, Absent, MAbsent, Absent)
ValidUser == UserBody(JStr("Ana"), JStr("M"), JNum(30), JStr("dev"), MAbsent, Absent)

\* entries: a rating of a stored movie, and a rating of a movie that is not stored
EntryVals == {Entry(JNum(1), JNum(5)), Entry(JNum(9), JNum(4))}

MoviesVals ==
    {MAbsent, MNull, MStr} \cup {MArr(q) : q \in SeqsUpTo(EntryVals, MaxRatings)}

\* seven ratings of stored movies, more than GET /users/id/:id returns
SevenRatings ==
    <<Entry(JNum(1), JNum(3)), Entry(JNum(2), JNum(5)), Entry(JNum(1), JNum(1)),
      Entry(JNum(2), JNum(4)), Entry(JNum(1), JNum(5)), Entry(JNum(2), JNum(2)),
      Entry(JNum(1), JNum(4))>>

PostUserBodies ==
    {[ValidUser EXCEPT !.movies = m, !.num_ratings = JNum(7)] :
        m \in {MAbsent, MStr, MArr(<<Entry(JNum(1), JNum(5))>>),
               MArr(<<Entry(JNum(9), JNum(4))>>)}}
    \cup {[ValidUser EXCEPT !.name = Absent, !.age = JNum(0)],
          [ValidUser EXCEPT !.movies = MArr(SevenRatings)]}

PostUsersBodies ==
    {ArrayBody(q) : q \in SeqsUpTo(PostUserBodies, MaxBatch)}
    \cup {ObjectBody(ValidUser)}

PutUserBodies ==
    {ObjectBody([NoFields EXCEPT !.movies = m]) : m \in MoviesVals}
    \cup {ObjectBody([NoFields EXCEPT !.name = JStr("Bea"), !.movies = m]) :
            m \in {MAbsent, MArr(<<>>)}}
    \cup {ObjectBody([NoFields EXCEPT !.num_ratings = JNum(7)]),
          ObjectBody([NoFields EXCEPT !.age = JNum(-1)]),
          ArrayBody(<<>>)}

Segments ==
    {<<"0">>, <<"1">>, <<"2">>, <<"x">>} \cup {OidHex(n) : n \in 1..MaxOid}

UserSegments == Segments \ {<<"2">>}

Init ==
    /\ users = {}
    /\ movies = SeedMovies
    /\ cinemas = {}
    /\ nextOid = 1
    /\ req = NoReq
    /\ resp = NoResp
    /\ flights = NoFlights

Next ==
    \/ \E body \in PostUsersBodies, now \in Times : PostUsers(body, now)
    \/ \E seg \in UserSegments, body \in PutUserBodies, now \in Times :
            PutUser(seg, body, now)
    \/ \E seg \in UserSegments : GetUser(seg)
    \/ \E seg \in UserSegments : DeleteUser(seg)
    \/ Await

Spec == Init /\ [][Next]_vars

(***************************************************************************)
(* The specification SpecList: the three list routes over collections      *)
(* that grow and shrink.  Cinemas have no create or delete route: the      *)
(* collection is what the import left.                                     *)
(***************************************************************************)
MaxCinemas == 3

\* the i-th imported cinema: a GeoJSON Point at longitude i, latitude 1
Cinema(i) ==
    [_id |-> Oid(16 + i), movies |-> <<>>, geometry |-> [lng |-> i, lat |-> 1]]

QueryVals ==
    {<<>>, <<"0">>, <<"1">>, <<"2">>, <<"3">>, <<"0", "2">>, <<"a">>,
     <<"-", "1">>, <<"1", "a">>}

ListPostBodies == {ArrayBody(q) : q \in SeqsUpTo({ValidUser}, MaxBatch) \ {<<>>}}

InitList ==
    /\ users = {}
    /\ movies = SeedMovies
    /\ cinemas \in {{Cinema(i) : i \in 1..k} : k \in 0..MaxCinemas}
    /\ nextOid = 1
    /\ req = NoReq
    /\ resp = NoResp
    /\ flights = NoFlights

NextList ==
    \/ \E pageQ \in QueryVals, limitQ \in QueryVals : ListUsers(pageQ, limitQ)
    \/ \E pageQ \in QueryVals, limitQ \in QueryVals : ListMovies(pageQ, limitQ)
    \/ \E pageQ \in QueryVals, limitQ \in QueryVals : ListCinemas(pageQ, limitQ)
    \/ \E body \in ListPostBodies, now \in Times : PostUsers(body, now)
    \/ \E seg \in UserSegments : DeleteUser(seg)
    \/ \E seg \in Segments : DeleteMovie(seg)
    \/ Await

SpecList == InitList /\ [][NextList]_vars

(***************************************************************************)
(* The specification SpecMovies: creating and deleting movies.             *)
(***************************************************************************)
MaxGenres == 2

GenreVals == {JStr("Drama"), JStr("Western"), JNum(3)}

GenresVals == {GAbsent} \cup {GArr(q) : q \in SeqsUpTo(GenreVals, MaxGenres)}

PostMovieBodies ==
    {MovieBody(title, year, g) :
        title \in {JStr("New"), Absent}, year \in {JNum(2000), JNum(1500)},
        g \in GenresVals}

PostMoviesBodies ==
    {ArrayBody(q) : q \in SeqsUpTo(PostMovieBodies, MaxBatch)}
    \cup {ObjectBody(MovieBody(JStr("New"), JNum(2000), GArr(<<JStr("Drama")>>)))}

NextMovies ==
    \/ \E body \in PostMoviesBodies : PostMovies(body)
    \/ \E seg \in Segments : DeleteMovie(seg)
    \/ Await

SpecMovies == Init /\ [][NextMovies]_vars

(***************************************************************************)
(* The specification SpecCinemas: attaching movies to the imported cinemas *)
(* and listing them, while movies are deleted.                             *)
(***************************************************************************)
MaxAttach == 2      \* longest movies array of a PUT /cinemas/id/:id body

\* ids of stored movies, of a movie that is not stored, and a string
AttachIds == {JNum(1), JNum(2), JNum(9), JStr("1")}

PutCinemaBodies ==
    {ObjectBody([movies |-> m]) :
        m \in {MAbsent, MStr} \cup {MArr(q) : q \in SeqsUpTo(AttachIds, MaxAttach)}}

ImportedCinemas == {Cinema(1), Cinema(2)}

\* the imported cinemas, a cinema that is not stored, and segments that are
\* no ObjectId
CinemaSegments ==
    {Cinema(1)._id.hex, Cinema(2)._id.hex, Cinema(3)._id.hex, <<"x">>, <<"1">>}

InitCinemas ==
    /\ users = {}
    /\ movies = SeedMovies
    /\ cinemas = ImportedCinemas
    /\ nextOid = 1
    /\ req = NoReq
    /\ resp = NoResp
    /\ flights = NoFlights

NextCinemas ==
    \/ \E seg \in CinemaSegments, body \in PutCinemaBodies : PutCinema(seg, body)
    \/ \E seg \in CinemaSegments : GetCinemaMovies(seg)
    \/ \E seg \in Segments : DeleteMovie(seg)
    \/ Await

SpecCinemas == InitCinemas /\ [][NextCinemas]_vars

(***************************************************************************)
(* The specification SpecUpdate: reading, updating and deleting users and  *)
(* movies by id.  The users collection starts with an imported user whose  *)
(* _id is a number.                                                        *)
(***************************************************************************)
SeedUser ==
    WithId(newUser([ValidUser EXCEPT !.name = JStr("Eva"), !.gender = JStr("F"),
                                     !.movies = MArr(<<Entry(JNum(1), JNum(5))>>)],
                   1),
           NumId(1))

UpdateUserBodies ==
    {ObjectBody(b) : b \in
        {[NoFields EXCEPT !.name = JStr(""), !.num_ratings = JNum(7)],
         [NoFields EXCEPT !.name = JNum(5)],
         [NoFields EXCEPT !.gender = JStr("X")],
         [NoFields EXCEPT !.name = JStr("Bea"), !.age = JNum(-1)],
         [NoFields EXCEPT !.movies = MArr(<<Entry(JNum(2), JNum(4))>>)],
         [NoFields EXCEPT !.num_ratings = JNum(7)]}}
    \cup {ArrayBody(<<>>)}

UpdateMovieBodies ==
    {ObjectBody(b) : b \in
        {MovieBody(JStr(""), Absent, GArr(<<JStr("Comedy")>>)),
         MovieBody(Absent, JNum(1500), GAbsent),
         MovieBody(Absent, JNum(1400), GAbsent),
         MovieBody(Absent, Absent, GArr(<<JStr("Western")>>)),
         MovieBody(Absent, Absent, GStr),
         [MovieBody(Absent, Absent, GAbsent) EXCEPT !.other = JNum(7)]}}
    \cup {ArrayBody(<<>>)}

\* the segments of Segments but "2": the second imported movie is not
\* addressed
UpdateSegments == UserSegments

InitUpdate ==
    /\ users = {SeedUser}
    /\ movies = SeedMovies
    /\ cinemas = {}
    /\ nextOid = 1
    /\ req = NoReq
    /\ resp = NoResp
    /\ flights = NoFlights

NextUpdate ==
    \/ \E now \in Times : PostUsers(ArrayBody(<<ValidUser>>), now)
    \/ \E seg \in UpdateSegments, body \in UpdateUserBodies, now \in Times :
            PutUser(seg, body, now)
    \/ \E seg \in UpdateSegments : GetUser(seg)
    \/ \E seg \in UpdateSegments : DeleteUser(seg)
    \/ \E seg \in UpdateSegments, body \in UpdateMovieBodies : PutMovie(seg, body)
    \/ \E seg \in UpdateSegments : GetMovie(seg)
    \/ \E seg \in UpdateSegments : DeleteMovie(seg)
    \/ Await

SpecUpdate == InitUpdate /\ [][NextUpdate]_vars

(***************************************************************************)
(* The specification SpecQueries: the analytical routes of the movies      *)
(* router and the geospatial routes of the cinemas router, while users     *)
(* rate movies and movies are deleted.                                     *)
(***************************************************************************)
QueryUserBodies ==
    {ArrayBody(<<[ValidUser EXCEPT !.movies = MArr(q)]>>) :
        q \in {<<Entry(JNum(1), JNum(3)), Entry(JNum(2), JNum(5))>>,
               <<Entry(JNum(2), JNum(5))>>}}

HigherVals ==
    {<<"0">>, <<"0", "0">>, <<"1">>, <<"2">>, <<"3">>, <<"-", "1">>, <<"x">>,
     <<"1", "x">>}

OrderVals == {"asc", "desc", "up"}

GenreNames == {"Drama", "Western", "Sci-Fi"}

YearVals ==
    {<<"1", "9", "9", "5">>, <<"1", "9", "8", "8">>, <<"1", "4", "0", "0">>,
     <<"2", "0", "2", "0">>, <<"1", "9", "x">>}

\* the years the clock can show
ThisYears == {2000, 2026}

CoordVals == {<<"0">>, <<"1">>, <<"2">>, <<"-", "1">>, <<"x">>, <<"1", "x">>}

InitQueries ==
    /\ users = {SeedUser}
    /\ movies = SeedMovies
    /\ cinemas = ImportedCinemas
    /\ nextOid = 1
    /\ req = NoReq
    /\ resp = NoResp
    /\ flights = NoFlights

NextQueries ==
    \/ \E body \in QueryUserBodies, now \in Times : PostUsers(body, now)
    \/ \E seg \in Segments : DeleteMovie(seg)
    \/ \E seg \in HigherVals : Higher(seg)
    \/ \E order \in OrderVals : Ratings(order)
    \/ Star
    \/ \E genre \in GenreNames, year \in YearVals, thisYear \in ThisYears :
            GenreYear(genre, year, thisYear)
    \/ \E lng \in CoordVals, lat \in CoordVals : Near(lng, lat)
    \/ \E lng1 \in CoordVals, lat1 \in CoordVals, lng2 \in CoordVals,
          lat2 \in CoordVals : Line(lng1, lat1, lng2, lat2)
    \/ \E lng \in CoordVals, lat \in CoordVals : Sum(lng, lat)
    \/ \E lng \in CoordVals, lat \in CoordVals : Within(lng, lat)
    \/ Await

SpecQueries == InitQueries /\ [][NextQueries]_vars

(***************************************************************************)
(* The specification SpecRace: one client creates and updates users while  *)
(* another deletes movies.                                                 *)
(***************************************************************************)
RaceMovies ==
    {MAbsent,
     MArr(<<Entry(JNum(1), JNum(5)), Entry(JNum(2), JNum(4))>>),
     MArr(<<Entry(JNum(2), JNum(4)), Entry(JNum(9), JNum(3))>>)}

RacePostBodies ==
    {ArrayBody(<<[ValidUser EXCEPT !.movies = m]>>) : m \in RaceMovies}
    \cup {ArrayBody(<<[ValidUser EXCEPT !.movies = MArr(<<Entry(JNum(1), JNum(5))>>)],
                      [ValidUser EXCEPT !.movies = MArr(<<Entry(JNum(2), JNum(4))>>)]>>),
          ObjectBody(ValidUser)}

RacePutBodies ==
    {ObjectBody([NoFields EXCEPT !.movies = m]) : m \in RaceMovies \ {MAbsent}}
    \cup {ObjectBody([NoFields EXCEPT !.name = JStr("Bea")])}

NextRace ==
    \/ \E body \in RacePostBodies, now \in Times : BeginPostUsers("a", body, now)
    \/ \E seg \in UserSegments, body \in RacePutBodies, now \in Times :
            BeginPutUser("a", seg, body, now)
    \/ ValidateEntry("a")
    \/ WriteUsers("a")
    \/ \E seg \in Segments : DeleteMovieMeanwhile(seg)
    \/ Finish("a")

SpecRace == InitUpdate /\ [][NextRace]_vars

(***************************************************************************)
(* The specification SpecAttach: two clients attach movies to cinemas at   *)
(* the same time.                                                          *)
(***************************************************************************)
AttachBodies ==
    {ObjectBody([movies |-> m]) :
        m \in {MAbsent, MArr(<<JNum(1)>>), MArr(<<JNum(2)>>), MArr(<<JNum(9)>>),
               MArr(<<JNum(1), JNum(2)>>), MArr(<<JNum(2), JNum(9)>>)}}

AttachSegments == {Cinema(1)._id.hex, Cinema(3)._id.hex, <<"x">>}

NextAttach ==
    \/ \E c \in Clients, seg \in AttachSegments, body \in AttachBodies :
            BeginPutCinema(c, seg, body)
    \/ \E c \in Clients : AttachStep(c)
    \/ \E c \in Clients : WriteCinema(c)
    \/ \E c \in Clients : Finish(c)

SpecAttach == InitCinemas /\ [][NextAttach]_vars

(***************************************************************************)
(* Properties of the users router (specification Spec).                    *)
(***************************************************************************)
Min(a, b) == IF a < b THEN a ELSE b

\* the user a request on /users/id/:id addresses, in a collection
Addressed(us, seg) == findById(us, checkId(seg))

\* C1: after any sequence of successful POST /users and PUT /users/id/:id
\* requests, every stored user has a movies sequence, and its num_ratings
\* is the length of that sequence.
C1_NumRatingsIsMoviesLength ==
    \A u \in users :
        u.movies.t = "arr" /\ u.num_ratings = JNum(Len(u.movies.items))

\* the errors of user i of a POST /users body
C2_Errors(body, i, mv) == validateUser(filterValidFields(body.items[i]), mv)

\* C2: POST /users is all-or-nothing: when a user of the batch fails
\* validation the response is 400, its details name every failing user's
\* index with its errors, and the users collection is unchanged.
C2_PostUsersAllOrNothing ==
    [][(/\ req = NoReq
        /\ req'.op = "POST /users"
        /\ req'.body.isArray
        /\ \E i \in 1..Len(req'.body.items) : C2_Errors(req'.body, i, movies) # <<>>)
       => /\ resp'.status = 400
          /\ \A i \in 1..Len(req'.body.items) :
                C2_Errors(req'.body, i, movies) # <<>>
                => \E k \in 1..Len(resp'.details) :
                      resp'.details[k] =
                          [index |-> i - 1, errors |-> C2_Errors(req'.body, i, movies)]
          /\ users' = users]_vars

\* C3: a successful PUT /users/id/:id whose body has no movies key leaves
\* the user's movies and num_ratings as they were; one whose body has
\* movies: [] leaves the user with no movies and num_ratings = 0.
C3_PutMoviesOmittedOrEmpty ==
    [][(/\ req = NoReq
        /\ req'.op = "PUT /users/id"
        /\ resp'.status = 200)
       => LET body == req'.body.items[1]
              before == CHOOSE u \in Addressed(users, req'.seg) : TRUE
              after == CHOOSE u \in Addressed(users', req'.seg) : TRUE
          IN  /\ Addressed(users, req'.seg) # {}
              /\ Addressed(users', req'.seg) # {}
              /\ body.movies = MAbsent
                 => /\ after.movies = before.movies
                    /\ after.num_ratings = before.num_ratings
              /\ body.movies = MArr(<<>>)
                 => /\ after.movies = MArr(<<>>)
                    /\ after.num_ratings = JNum(0)]_vars

\* a PUT without movies was answered 200 for a user who has ratings
C3_Witness ==
    /\ req.op = "PUT /users/id"
    /\ resp.status = 200
    /\ req.body.items[1].movies = MAbsent
    /\ \E u \in Addressed(users, req.seg) :
          u.movies.t = "arr" /\ Len(u.movies.items) > 0 /\ u.num_ratings = JNum(Len(u.movies.items))

\* top is k of the entries, none of the entries left out rated higher
C10_IsTopOf(top, entries) ==
    \E pick \in [1..Len(top) -> 1..Len(entries)] :
        /\ \A a, b \in 1..Len(top) : a # b => pick[a] # pick[b]
        /\ \A a \in 1..Len(top) : top[a] = entries[pick[a]]
        /\ \A j \in 1..Len(entries) :
              (\A a \in 1..Len(top) : pick[a] # j)
              => \A a \in 1..Len(top) : entries[j].rating.n <= top[a].rating.n

\* what C10 asks of the answer to GET /users/id/:id for a user with the
\* given rating entries
C10_Answer(entries) ==
    /\ resp.status = 200
    /\ IF Len(entries) = 0
       THEN resp.topKind = "string"
       ELSE /\ resp.topKind = "list"
            /\ Len(resp.topMovies) = Min(TopLimit, Len(entries))
            /\ \A a \in 1..(Len(resp.topMovies) - 1) :
                  resp.topMovies[a].rating.n >= resp.topMovies[a + 1].rating.n
            /\ C10_IsTopOf(resp.topMovies, entries)

\* C10: GET /users/id/:id of an existing user answers with topMovies as a
\* string when the user has no rating, and else as the list of min(5, n)
\* of the user's n rating entries, by rating descending, no entry left out
\* rated higher than one returned.  (A user whose movies is not a sequence
\* has no rating entry.)
C10_TopMovies ==
    (req.op = "GET /users/id" /\ Addressed(users, req.seg) # {})
    => LET user == CHOOSE u \in Addressed(users, req.seg) : TRUE
       IN  C10_Answer(IF user.movies.t = "arr" THEN user.movies.items ELSE <<>>)

\* C10 for the users whose movies is a sequence
C10_TopMoviesOfSequences ==
    (/\ req.op = "GET /users/id"
     /\ \E u \in Addressed(users, req.seg) : u.movies.t = "arr")
    => LET user == CHOOSE u \in Addressed(users, req.seg) : TRUE
       IN  C10_Answer(user.movies.items)

\* a user with more than five ratings was fetched
C10_WitnessTruncated ==
    /\ req.op = "GET /users/id"
    /\ resp.status = 200
    /\ \E u \in Addressed(users, req.seg) :
          u.movies.t = "arr" /\ Len(u.movies.items) > TopLimit

(***************************************************************************)
(* Properties of the list routes (specification SpecList).                 *)
(***************************************************************************)
ListOps == {"GET /users", "GET /movies", "GET /cinemas"}

\* the collection a list route reads
Listed(op) ==
    CASE op = "GET /users" -> users
      [] op = "GET /movies" -> movies
      [] OTHER -> cinemas

\* a strictly positive integer written with digits only
PositiveDigits(q) == IsDigits(q) /\ parseInt(q) > 0

\* C4: on every list route, a request whose page or limit is not a strictly
\* positive integer written as a digit-only string (page=0 and limit=0
\* included) is answered 400.
C4_BadPageOrLimitIs400 ==
    (/\ req.op \in ListOps
     /\ req.page # <<>>
     /\ req.limit # <<>>
     /\ ~(PositiveDigits(req.page) /\ PositiveDigits(req.limit)))
    => resp.status = 400

\* C5: when the listed collection is empty, every list request with
\* digit-only page and limit is answered 404, never with a 200 envelope.
C5_EmptyCollectionIs404 ==
    (/\ req.op \in ListOps
     /\ IsDigits(req.page)
     /\ IsDigits(req.limit)
     /\ Listed(req.op) = {})
    => resp.status = 404

\* C6: in every 200 response of a list route, prevPage is present iff
\* page > 1 (and is page - 1), and nextPage is present iff
\* page < ceil(totalDocs / limit) (and is page + 1).
C6_PrevNextPresence ==
    (req.op \in ListOps /\ resp.status = 200)
    => LET page == parseInt(req.page)
           limit == parseInt(req.limit)
           e == resp.envelope
           \* page < ceil(totalDocs / limit); n/0 is infinite for n > 0 and
           \* 0/0 is no number
           beforeLast == IF limit = 0 THEN e.totalDocs > 0
                         ELSE page * limit < e.totalDocs
       IN  /\ e.hasPrev <=> page > 1
           /\ e.hasPrev => e.prevPage = Finite(page - 1)
           /\ e.hasNext <=> beforeLast
           /\ e.hasNext => e.nextPage = Finite(page + 1)

\* C7: a list request with page > 0 and limit > 0 that is answered 200
\* returns at most limit items, a non-empty page iff (page-1)*limit is
\* less than totalDocs, and the items are the slice of the collection in
\* ascending _id order from offset (page-1)*limit.
C7_PageIsSlice ==
    (/\ req.op \in ListOps
     /\ resp.status = 200
     /\ PositiveDigits(req.page)
     /\ PositiveDigits(req.limit))
    => LET page == parseInt(req.page)
           limit == parseInt(req.limit)
           coll == Listed(req.op)
           e == resp.envelope
           offset == (page - 1) * limit
       IN  /\ e.totalDocs = Cardinality(coll)
           /\ e.currentPageDocs = Len(e.items)
           /\ e.currentPageDocs <= limit
           /\ e.currentPageDocs > 0 <=> offset < e.totalDocs
           /\ offset < e.totalDocs
              => Len(e.items) = Min(limit, e.totalDocs - offset)
           /\ \A k \in 1..Len(e.items) :
                 /\ e.items[k] \in coll
                 /\ Cardinality({d \in coll : IdLess(d._id, e.items[k]._id)})
                        = offset + k - 1

\* the second page of three documents, two to a page, was listed
C7_Witness ==
    /\ req.op \in ListOps
    /\ resp.status = 200
    /\ req.page = <<"2">>
    /\ req.limit = <<"2">>
    /\ resp.envelope.totalDocs = 3
    /\ resp.envelope.currentPageDocs = 1

(***************************************************************************)
(* Properties of POST /movies (specification SpecMovies).                  *)
(***************************************************************************)
\* a movie with a non-empty title, a year after 1500 and a non-empty list
\* of genres that are all among the genres of the stored movies
C8_ValidMovie(m, mv) ==
    /\ m.title.t = "str" /\ Trim(m.title.s) # ""
    /\ m.year.t = "num" /\ m.year.n > 1500
    /\ m.genres.t = "arr" /\ Len(m.genres.items) > 0
    /\ \A i \in 1..Len(m.genres.items) :
          m.genres.items[i].t = "str" /\ m.genres.items[i] \in distinctGenres(mv)

\* C8: POST /movies with a batch of valid movies whose genres are all
\* stored genres is answered 201 and every movie of the batch is inserted.
C8_ValidBatchAccepted ==
    (/\ req.op = "POST /movies"
     /\ req.body.isArray
     /\ Len(req.body.items) > 0
     /\ \A i \in 1..Len(req.body.items) : C8_ValidMovie(req.body.items[i], movies))
    => /\ resp.status = 201
       /\ \A i \in 1..Len(req.body.items) :
             \E d \in movies :
                /\ d.title = req.body.items[i].title
                /\ d.year = req.body.items[i].year
                /\ d.genres = req.body.items[i].genres.items

\* a movie with a valid title and year whose only genre is a string that
\* no stored movie has
C9_UnknownGenreOnly(m, mv) ==
    /\ m.title.t = "str" /\ Trim(m.title.s) # ""
    /\ m.year.t = "num" /\ m.year.n > 1500
    /\ m.genres.t = "arr" /\ Len(m.genres.items) = 1
    /\ m.genres.items[1].t = "str"
    /\ m.genres.items[1] \notin distinctGenres(mv)

\* C9: POST /movies with a movie whose title and year are valid and whose
\* only genre is not a genre of any stored movie is answered 400, the
\* details name that movie's index and the invalid genre, and no movie is
\* inserted.
C9_UnknownGenreRejected ==
    [][(/\ req = NoReq
        /\ req'.op = "POST /movies"
        /\ req'.body.isArray
        /\ \E i \in 1..Len(req'.body.items) :
              C9_UnknownGenreOnly(req'.body.items[i], movies))
       => /\ resp'.status = 400
          /\ \A i \in 1..Len(req'.body.items) :
                C9_UnknownGenreOnly(req'.body.items[i], movies)
                => \E k \in 1..Len(resp'.details) :
                      /\ resp'.details[k].index = i - 1
                      /\ \E j \in 1..Len(resp'.details[k].errors) :
                            resp'.details[k].errors[j].e = "genre not valid"
          /\ movies' = movies]_vars

(***************************************************************************)
(* Properties of the cinemas router (specification SpecCinemas).           *)
(***************************************************************************)
\* the supplied id is the _id of a stored movie
C11_Exists(id, mv) == \E d \in mv : d._id.t = "num" /\ id = JNum(d._id.n)

\* the list is `before` followed by exactly the supplied ids that exist and
\* were not in `before`, each once, in the order the request first names them
C11_Merged(list, before, ids, mv) ==
    LET added == SubSeq(list, Len(before) + 1, Len(list))
        firstAt(x) == CHOOSE i \in 1..Len(ids) :
                          ids[i] = x /\ \A j \in 1..(i - 1) : ids[j] # x
    IN  /\ Len(list) >= Len(before)
        /\ SubSeq(list, 1, Len(before)) = before
        /\ \A k \in 1..Len(added) :
              /\ Includes(ids, added[k])
              /\ C11_Exists(added[k], mv)
              /\ ~Includes(before, added[k])
        /\ \A k, l \in 1..Len(added) : k < l => firstAt(added[k]) < firstAt(added[l])
        /\ \A i \in 1..Len(ids) :
              (C11_Exists(ids[i], mv) /\ ~Includes(before, ids[i]))
              => Includes(added, ids[i])

\* C11: PUT /cinemas/id/:id with body {movies: ids} on an existing cinema:
\* when a supplied id exists in the movies collection the answer is 200, the
\* cinema's list becomes the previous list followed by exactly the supplied
\* ids that exist and were not in it (each once, in request order) and the
\* message names every supplied id that does not exist; when no supplied id
\* exists the answer is 404 and the cinema's list is unchanged.
C11_AttachMovies ==
    [][(/\ req = NoReq
        /\ req'.op = "PUT /cinemas/id"
        /\ ObjectIdIsValid(req'.seg)
        /\ findById(cinemas, ObjectId(req'.seg)) # {}
        /\ req'.body.items[1].movies.t = "arr")
       => LET ids == req'.body.items[1].movies.items
              before == CHOOSE c \in findById(cinemas, ObjectId(req'.seg)) : TRUE
              after == CHOOSE c \in findById(cinemas', ObjectId(req'.seg)) : TRUE
          IN  /\ findById(cinemas', ObjectId(req'.seg)) # {}
              /\ \A c \in cinemas : c._id # before._id => c \in cinemas'
              /\ Cardinality(cinemas') = Cardinality(cinemas)
              /\ IF \E i \in 1..Len(ids) : C11_Exists(ids[i], movies)
                 THEN /\ resp'.status = 200
                      /\ C11_Merged(after.movies, before.movies, ids, movies)
                      /\ \A i \in 1..Len(ids) :
                            ~C11_Exists(ids[i], movies)
                            => Includes(resp'.details, ids[i])
                 ELSE /\ resp'.status = 404
                      /\ after = before]_vars

\* a PUT on a cinema that had one movie was answered 200: of the supplied
\* ids one was added behind it and one does not exist
C11_Witness ==
    /\ req.op = "PUT /cinemas/id"
    /\ resp.status = 200
    /\ resp.details # <<>>
    /\ LET ids == req.body.items[1].movies.items
       IN  \E c \in findById(cinemas, ObjectId(req.seg)) :
              /\ Len(c.movies) = 2
              /\ ~Includes(ids, c.movies[1])
              /\ Includes(ids, c.movies[2])

(***************************************************************************)
(* Properties of the routes on /users/id/:id and /movies/id/:id            *)
(* (specification SpecUpdate).                                             *)
(***************************************************************************)
IdOps ==
    {"GET /users/id", "PUT /users/id", "DELETE /users/id",
     "GET /movies/id", "PUT /movies/id", "DELETE /movies/id"}

\* the answer says that the identifier is invalid
C12_InvalidIdAnswer == resp.status = 400 /\ resp.error = "invalid id"

\* C12: GET, PUT and DELETE on /users/id/:id and /movies/id/:id accept
\* every digit-only segment ("0" included) and every 24-hex ObjectId string
\* (none answers 400 'invalid id'), and answer 400 for every other segment.
C12_IdsAccepted ==
    req.op \in IdOps
    => IF IsDigits(req.seg) \/ ObjectIdIsValid(req.seg)
       THEN ~C12_InvalidIdAnswer
       ELSE C12_InvalidIdAnswer

\* C12 without the segments that parse to the number 0
C12_NonZeroIdsAccepted ==
    (req.op \in IdOps /\ checkId(req.seg) # NumId(0))
    => IF IsDigits(req.seg) \/ ObjectIdIsValid(req.seg)
       THEN ~C12_InvalidIdAnswer
       ELSE C12_InvalidIdAnswer

(***************************************************************************)
(* Properties of the cinemas routes on an identifier that is no ObjectId   *)
(* (specification SpecCinemas).                                            *)
(***************************************************************************)
CinemaIdOps == {"PUT /cinemas/id", "GET /cinemas/movies"}

\* C13: PUT /cinemas/id/:id and GET /cinemas/movies/:id with a segment that
\* is no valid ObjectId are answered 400, and the store is unchanged.
C13_InvalidCinemaIdIs400 ==
    [][(/\ req = NoReq
        /\ req'.op \in CinemaIdOps
        /\ ~ObjectIdIsValid(req'.seg))
       => /\ resp'.status = 400
          /\ UNCHANGED <<users, movies, cinemas>>]_vars

\* on such a segment the store is unchanged, whatever the status
C13_InvalidCinemaIdChangesNothing ==
    [][(/\ req = NoReq
        /\ req'.op \in CinemaIdOps
        /\ ~ObjectIdIsValid(req'.seg))
       => UNCHANGED <<users, movies, cinemas>>]_vars

(***************************************************************************)
(* Properties of the analytical and geospatial routes (specification       *)
(* SpecQueries).                                                           *)
(***************************************************************************)
RatingOps == {"GET /movies/higher", "GET /movies/ratings", "GET /movies/star"}

PointOps == {"GET /cinemas/near", "GET /cinemas/near/sum", "GET /cinemas/within"}

GeoOps == PointOps \cup {"GET /cinemas/near/line"}

\* no user has a rating of a stored movie
C14_NoRatedMovie ==
    \A u \in users :
        u.movies.t = "arr"
        => \A i \in 1..Len(u.movies.items) :
              \A d \in movies :
                 ~(d._id.t = "num" /\ u.movies.items[i].movieid = JNum(d._id.n))

\* the query of the request that was answered has no result
C14_EmptyResult ==
    LET at(k) == parseFloat(req.coords[k]).n
    IN  CASE req.op \in RatingOps -> C14_NoRatedMovie
          [] req.op = "GET /movies/genres/year" ->
                \A d \in movies :
                   ~(Includes(d.genres, JStr(req.genre))
                     /\ d.year = JNum(parseInt(req.year)))
          [] req.op \in PointOps ->
                \A c \in cinemas : c.geometry # [lng |-> at(1), lat |-> at(2)]
          [] OTHER ->
                \A c \in cinemas :
                   /\ c.geometry # [lng |-> at(1), lat |-> at(2)]
                   /\ c.geometry # [lng |-> at(3), lat |-> at(4)]
                   /\ ~(/\ at(1) = at(3)
                        /\ c.geometry.lng = at(1)
                        /\ \/ at(2) < c.geometry.lat /\ c.geometry.lat < at(4)
                           \/ at(4) < c.geometry.lat /\ c.geometry.lat < at(2))

\* C14: an analytical or geospatial read route whose query has no result
\* answers 404: /movies/higher/:n, /movies/ratings/:order, /movies/star,
\* /movies/genres/:genre/year/:year and the cinemas near, line, sum and
\* within routes.
C14_EmptyResultIs404 ==
    (/\ req.op \in RatingOps \cup GeoOps \cup {"GET /movies/genres/year"}
     /\ resp.queried
     /\ C14_EmptyResult)
    => resp.status = 404

\* C14 for the routes that set the status before they send: genre and year,
\* near, line and sum
C14_EmptyResultIs404WhereStatusFirst ==
    (/\ req.op \in {"GET /movies/genres/year", "GET /cinemas/near",
                    "GET /cinemas/near/line", "GET /cinemas/near/sum"}
     /\ resp.queried
     /\ C14_EmptyResult)
    => resp.status = 404

\* C14 for the routes that send before they set the status: higher,
\* ratings and star
C14_EmptyResultIs404WhereSendFirst ==
    (req.op \in RatingOps /\ resp.queried /\ C14_EmptyResult)
    => resp.status = 404

(***************************************************************************)
(* Properties of the updates (specification SpecUpdate).                   *)
(***************************************************************************)
\* creation validation rejects the value of a field of a user
C15_CreateRejectsUserField(f, value, mv) ==
    validateUser([ValidUser EXCEPT ![f] = value], mv) # <<>>

\* creation validation rejects the title, or the year, of a movie
C15_CreateRejectsMovieField(f, value, mv) ==
    LET errors == validateMovie([MovieBody(JStr("New"), JNum(2000), GAbsent)
                                    EXCEPT ![f] = value], mv).errors
    IN  \E k \in 1..Len(errors) :
           errors[k].e = (IF f = "title" THEN "title invalid" ELSE "year invalid")

\* a stored user that creation validation accepts field by field
C15_ValidStoredUser(u) ==
    /\ u.name.t = "str" /\ Trim(u.name.s) # ""
    /\ u.occupation.t = "str" /\ Trim(u.occupation.s) # ""
    /\ u.gender \in {JStr("M"), JStr("F")}
    /\ u.age.t = "num" /\ u.age.n > 0

\* every PUT whose body has a field that creation validation rejects is
\* answered 400
C15_UpdateRejectsWhatCreateRejects ==
    [][(/\ req = NoReq
        /\ req'.op \in {"PUT /users/id", "PUT /movies/id"}
        /\ ~req'.body.isArray
        /\ LET body == req'.body.items[1]
           IN  IF req'.op = "PUT /users/id"
               THEN /\ Addressed(users, req'.seg) # {}
                    /\ \E f \in {"name", "gender", "age", "occupation"} :
                          /\ body[f].t # "absent"
                          /\ C15_CreateRejectsUserField(f, body[f], movies)
               ELSE /\ Addressed(movies, req'.seg) # {}
                    /\ \E f \in {"title", "year"} :
                          /\ body[f].t # "absent"
                          /\ C15_CreateRejectsMovieField(f, body[f], movies))
       => resp'.status = 400]_vars

\* every stored user is valid, and every movie an update wrote has a year
\* after 1500
C15_StoredDocumentsValid ==
    /\ \A u \in users : C15_ValidStoredUser(u)
    /\ (req.op = "PUT /movies/id" /\ resp.status = 200
        /\ req.body.items[1].year.t # "absent")
       => \A d \in Addressed(movies, req.seg) : d.year.t = "num" /\ d.year.n > 1500

\* C15: update validation applies the creation rules to every field present
\* in the body (a present name, gender, age or occupation of a user, or
\* title or year of a movie, that creation rejects is rejected by PUT with
\* 400); so every stored user has a non-empty string name and occupation,
\* gender "M" or "F" and age > 0, and every movie an update wrote has
\* year > 1500.
C15_UpdateValidatesAsCreate ==
    C15_UpdateRejectsWhatCreateRejects /\ []C15_StoredDocumentsValid

(***************************************************************************)
(* Properties of GET /movies/genres/:genre/year/:year and of               *)
(* GET /movies/higher/:n (specification SpecQueries).                      *)
(***************************************************************************)
\* the stored movies of a genre and a year
C16_Matching(genre, year) ==
    {d \in movies : Includes(d.genres, JStr(genre)) /\ d.year = JNum(year)}

\* C16: GET /movies/genres/:genre/year/:year with a letters-only genre of
\* the distinct-genre set and a digit-only year in 1500..current year
\* returns exactly the stored movies of that genre whose year is that
\* number, and answers 404 only when there is none; a letters-only genre
\* that is not in the set is answered 404 with the available genres.
C16_GenreYearFinds ==
    (req.op = "GET /movies/genres/year" /\ IsLetters(req.genre) /\ IsDigits(req.year))
    => IF JStr(req.genre) \notin distinctGenres(movies)
       THEN resp.status = 404 /\ resp.details = distinctGenres(movies)
       ELSE (parseInt(req.year) >= 1500 /\ parseInt(req.year) <= req.now)
            => LET matching == C16_Matching(req.genre, parseInt(req.year))
               IN  IF matching = {} THEN resp.status = 404
                   ELSE /\ resp.status = 200
                        /\ {resp.results[k] : k \in 1..Len(resp.results)} = matching

\* C16 for the requests no stored movie matches
C16_GenreYearWithoutMatch ==
    (/\ req.op = "GET /movies/genres/year" /\ IsLetters(req.genre) /\ IsDigits(req.year)
     /\ C16_Matching(req.genre, parseInt(req.year)) = {})
    => IF JStr(req.genre) \notin distinctGenres(movies)
       THEN resp.status = 404 /\ resp.details = distinctGenres(movies)
       ELSE (parseInt(req.year) >= 1500 /\ parseInt(req.year) <= req.now)
            => resp.status = 404

\* the average rating of a stored movie, as the pair of the sum and the
\* number of its ratings
C17_Average(d) ==
    LET rated == {e \in unwindMovies(users) :
                     d._id.t = "num" /\ entryOf(e).movieid = JNum(d._id.n)}
    IN  [num |-> sumRatings(rated), den |-> Cardinality(rated)]

\* the stored movies that have a rating
C17_Rated == {d \in movies : C17_Average(d).den > 0}

\* a >= b for two averages
C17_Geq(a, b) == a.num * b.den >= b.num * a.den

\* C17: GET /movies/higher/:n answers 400 when n is "0", negative or not a
\* digit-only string, and then runs no aggregation; for a digit-only n >= 1
\* it returns at most n movies (the min(n, rated movies) best), each with
\* its average rating, ordered by average rating descending.
C17_HigherTopN ==
    req.op = "GET /movies/higher"
    => IF ~IsDigits(req.seg) \/ parseInt(req.seg) < 1
       THEN resp.status = 400 /\ ~resp.queried /\ resp.results = <<>>
       ELSE LET n == parseInt(req.seg)
                rows == resp.results
            IN  /\ resp.status # 400
                /\ resp.queried
                /\ Len(rows) = Min(n, Cardinality(C17_Rated))
                /\ \A k \in 1..Len(rows) :
                      /\ rows[k].movie \in C17_Rated
                      /\ rows[k].key = C17_Average(rows[k].movie)
                      /\ \A l \in 1..Len(rows) : k # l => rows[k].movie # rows[l].movie
                /\ \A k \in 1..(Len(rows) - 1) : C17_Geq(rows[k].key, rows[k + 1].key)
                /\ \A d \in C17_Rated :
                      (\A k \in 1..Len(rows) : rows[k].movie # d)
                      => \A k \in 1..Len(rows) : C17_Geq(rows[k].key, C17_Average(d))

\* /movies/higher/1 answered with one of two rated movies, and
\* /movies/higher/0 refused
C17_Witness ==
    /\ req.op = "GET /movies/higher"
    /\ req.seg = <<"1">>
    /\ Len(resp.results) = 1
    /\ Cardinality(C17_Rated) = 2
    /\ \E d \in C17_Rated : C17_Average(d).den = 2

\* /movies/higher/0 was refused
C17_WitnessZero ==
    /\ req.op = "GET /movies/higher"
    /\ req.seg = <<"0">>
    /\ resp.status = 400

(***************************************************************************)
(* Properties of the geospatial routes (specification SpecQueries).        *)
(***************************************************************************)
\* the coordinate is no number (parseFloat finds no number at its start) or
\* is the number 0
C18_NoNumberOrZero(seg) ==
    LET unsigned == IF seg # <<>> /\ Head(seg) = "-" THEN Tail(seg) ELSE seg
    IN  \/ unsigned = <<>>
        \/ ~IsDigit(Head(unsigned))
        \/ \A i \in 1..Len(leadingDigits(unsigned)) : unsigned[i] = "0"

C18_NotWhollyNumericIs400 ==
    (/\ req.op \in GeoOps
     /\ \E k \in 1..Len(req.coords) :
           LET seg == req.coords[k]
               unsigned == IF seg # <<>> /\ Head(seg) = "-" THEN Tail(seg) ELSE seg
           IN  ~IsDigits(unsigned) \/ parseInt(unsigned) = 0)
    => resp.status = 400

(***************************************************************************)
(* Properties of POST /users and of the updates (specifications Spec and   *)
(* SpecUpdate).                                                            *)
(***************************************************************************)
\* user i of the body has a movies value that is present and no sequence
C19_MoviesNotSequence(body, i) ==
    MTruthy(body.items[i].movies) /\ body.items[i].movies.t # "arr"

\* C19: POST /users in which a user has a movies value that is present but
\* no sequence is answered 400 (not 500), its details have an entry for
\* that user's index with the 'movies must be an array' error and the
\* user's other field errors, and nothing is inserted.
C19_MoviesNotSequenceIs400 ==
    [][(/\ req = NoReq
        /\ req'.op = "POST /users"
        /\ req'.body.isArray
        /\ \E i \in 1..Len(req'.body.items) : C19_MoviesNotSequence(req'.body, i))
       => /\ resp'.status = 400
          /\ \A i \in 1..Len(req'.body.items) :
                C19_MoviesNotSequence(req'.body, i)
                => \E k \in 1..Len(resp'.details) :
                      /\ resp'.details[k].index = i - 1
                      /\ Includes(resp'.details[k].errors,
                                  Err("movies must be an array", -1))
                      /\ \A e \in {"name invalid", "gender invalid", "age invalid",
                                   "occupation invalid"} :
                            Includes(C2_Errors(req'.body, i, movies), Err(e, -1))
                            => Includes(resp'.details[k].errors, Err(e, -1))
          /\ users' = users]_vars

\* nothing is inserted by such a request, whatever its status
C19_MoviesNotSequenceInsertsNothing ==
    [][(/\ req = NoReq
        /\ req'.op = "POST /users"
        /\ req'.body.isArray
        /\ \E i \in 1..Len(req'.body.items) : C19_MoviesNotSequence(req'.body, i))
       => users' = users]_vars

\* the keys of the whitelist that the body of a PUT supplies
C20_Supplied(op, body) ==
    IF op = "PUT /users/id"
    THEN {f \in {"name", "gender", "age", "occupation", "movies"} : body[f].t # "absent"}
    ELSE {f \in {"title", "year", "genres"} : body[f].t # "absent"}

\* the fields a PUT with these supplied keys may change
C20_MayChange(op, supplied) ==
    supplied \cup (IF op = "PUT /users/id" /\ "movies" \in supplied
                   THEN {"num_ratings"} ELSE {})

\* C20: a successful PUT on /users/id/:id or /movies/id/:id changes only the
\* whitelisted fields the body supplies (and num_ratings and the stamps when
\* movies is supplied): the _id, every field not supplied and every other
\* document are unchanged.  On a stored document, an array body, a body
\* without a whitelisted key or a body that fails validation is answered
\* 400 and leaves the collections unchanged.
C20_PutFrame ==
    [][(/\ req = NoReq
        /\ req'.op \in {"PUT /users/id", "PUT /movies/id"})
       => LET op == req'.op
              coll == IF op = "PUT /users/id" THEN users ELSE movies
              collAfter == IF op = "PUT /users/id" THEN users' ELSE movies'
              target == Addressed(coll, req'.seg)
              before == CHOOSE d \in target : TRUE
              body == req'.body.items[1]
              invalid == IF op = "PUT /users/id"
                         THEN validateUserToUpdate(filterValidFields(body), movies) # <<>>
                         ELSE validateMovieToUpdate(filterMovieFields(body), movies) # <<>>
          IN  /\ op = "PUT /users/id" => movies' = movies
              /\ op = "PUT /movies/id" => users' = users
              /\ cinemas' = cinemas
              /\ resp'.status = 200
                 => /\ target # {}
                    /\ ~req'.body.isArray
                    /\ coll \ target \subseteq collAfter
                    /\ Cardinality(collAfter) = Cardinality(coll)
                    /\ \E after \in collAfter :
                          /\ after._id = before._id
                          /\ DOMAIN after = DOMAIN before
                          /\ \A f \in DOMAIN before :
                                f \notin C20_MayChange(op, C20_Supplied(op, body))
                                => after[f] = before[f]
              /\ resp'.status # 200 => collAfter = coll
              /\ (target # {}
                  /\ (req'.body.isArray \/ C20_Supplied(op, body) = {} \/ invalid))
                 => resp'.status = 400 /\ collAfter = coll]_vars

\* a PUT that supplies only the movies of a user was answered 200 while
\* another user is stored
C20_Witness ==
    /\ req.op = "PUT /users/id"
    /\ resp.status = 200
    /\ C20_Supplied(req.op, req.body.items[1]) = {"movies"}
    /\ Cardinality(users) = 2
    /\ \E u \in Addressed(users, req.seg) : u.name = JStr("Eva")

(***************************************************************************)
(* Properties of the concurrent handlers (specification SpecRace).         *)
(***************************************************************************)
\* the step in which flight c writes and answers with success
C21_WriteSucceeds(c) ==
    /\ flights[c].pc = "validate"
    /\ flights'[c].pc = "done"
    /\ flights'[c].status \in {200, 201}

\* the rating entries that the write of flight c stores
C21_StoredByWrite(c) ==
    IF flights[c].op = "POST /users"
    THEN UNION {{d.movies.items[i] : i \in 1..Len(d.movies.items)} :
                   d \in users' \ users}
    ELSE IF flights[c].body.items[1].movies.t = "arr"
    THEN UNION {{d.movies.items[i] : i \in 1..Len(d.movies.items)} :
                   d \in findById(users', checkId(flights[c].seg))}
    ELSE {}

\* C21: every rating entry stored by a successful POST /users or
\* PUT /users/id/:id references a movie that the request's validation found
\* when it looked it up, and when no movie it found was deleted in between,
\* the movie still exists when the write is applied.
C21_StoredRatingsWereFound ==
    [][\A c \in Clients :
          C21_WriteSucceeds(c) =>
              \A e \in C21_StoredByWrite(c) :
                  /\ \E k \in 1..Len(flights[c].lookups) :
                         findMovie(flights[c].lookups[k], e.movieid) # {}
                  /\ ~flights[c].overtaken => findMovie(movies', e.movieid) # {}]_vars

\* the rating entries that the answered flight c has stored
C21_StoredBy(c) ==
    LET docs == IF flights[c].op = "POST /users"
                THEN {d \in users : \E j \in 1..Len(flights[c].body.items) :
                                        d._id = Oid(nextOid - j)}
                ELSE IF flights[c].body.items[1].movies.t = "arr"
                THEN findById(users, checkId(flights[c].seg))
                ELSE {}
    IN  UNION {{d.movies.items[i] : i \in 1..Len(d.movies.items)} : d \in docs}

\* C21: a movie was deleted between its existence check and the write, the
\* write succeeded, and a stored rating's movieid matches no movie
C21_Witness ==
    \E c \in Clients :
        /\ flights[c].pc = "done"
        /\ flights[c].status \in {200, 201}
        /\ flights[c].overtaken
        /\ \E e \in C21_StoredBy(c) :
               /\ findMovie(movies, e.movieid) = {}
               /\ \E k \in 1..Len(flights[c].lookups) :
                      findMovie(flights[c].lookups[k], e.movieid) # {}

(***************************************************************************)
(* Properties of concurrent attachments (specification SpecAttach).        *)
(***************************************************************************)
\* flight c is an answered PUT on the cinema of seg that was answered 200
C22_Attached(c, seg) ==
    /\ flights[c].pc = "done"
    /\ flights[c].op = "PUT /cinemas/id"
    /\ flights[c].seg = seg
    /\ flights[c].status = 200

\* the ids that must be in the list after the request of flight c: those it
\* read in the list and the existing movie ids of its body
C22_Expected(c) ==
    {flights[c].before[i] : i \in 1..Len(flights[c].before)}
    \cup {flights[c].body.items[1].movies.items[i] :
             i \in {j \in 1..Len(flights[c].body.items[1].movies.items) :
                       findMovie(movies, flights[c].body.items[1].movies.items[j]) # {}}}

\* C22: when two PUT /cinemas/id/:id requests on the same cinema are both
\* answered 200, then, however their reads and writes interleave, the
\* cinema's movies list contains every id that was in the list before and
\* every existing movie id that either request supplied.
C22_NoAttachmentLost ==
    \A seg \in AttachSegments :
        (\A c \in Clients : C22_Attached(c, seg)) =>
            \A d \in findById(cinemas, ObjectId(seg)) :
                \A c \in Clients :
                    \A id \in C22_Expected(c) : Includes(d.movies, id)

\* C22, one request after the other: a request that is answered 200 leaves
\* in the list every id it read there and every existing id it supplied
C22_WriteKeepsOwnAttachments ==
    [][\A c \in Clients :
          (flights[c].pc = "attach" /\ flights'[c].pc = "done"
           /\ flights'[c].status = 200) =>
              \A d \in findById(cinemas', ObjectId(flights[c].seg)) :
                  \A id \in C22_Expected(c) : Includes(d.movies, id)]_vars

====
